---- MODULE Spec2Model ----
(***************************************************************************)
(* Startup (AppInit2) and shutdown (Shutdown) of the Swipp daemon, as a    *)
(* state machine.  Every node process working on the one data directory    *)
(* is a record node[p]; the advisory lock on <datadir>/.lock is shared.    *)
(* AppInit2 is cut into the blocks of its source, one action per block;    *)
(* what the operating system, the database and the network answer is       *)
(* drawn with \E at the step that asks.                                    *)
(***************************************************************************)
EXTENDS Integers, Sequences, FiniteSets, TLC

VARIABLES node, lockHolders, lockFile

vars == <<node, lockHolders, lockFile>>

(***************************************************************************)
(* Bounds of the model.                                                    *)
(***************************************************************************)
\* Calls of Shutdown() one thread makes at most.
MaxCalls == 2

\* Height of the highest block of the model's chains.
MaxHeight == 2

\* Collaborators that may answer other than plainly in one run.
MaxVary == 1

\* How often AppInit2 is called in one process, at most.
MaxEntries == 2

\* errno's EEXIST, the value AppInit2 returns when the lock is taken.
EEXIST == 17

Procs == {1, 2}
Threads == {1, 2}

(***************************************************************************)
(* Command-line options.  mapArgs / mapMultiArgs are modelled together:    *)
(* an option's value is the sequence of the values given for it, <<>> when *)
(* the option is absent (mapArgs.count(o) = 0).  mapArgs[o] is the last.   *)
(***************************************************************************)
OptionNames ==
    {"-testnet", "-regtest", "-irc", "-bind", "-connect", "-proxy", "-listen",
     "-dnsseed", "-discover", "-upnp", "-externalip", "-salvagewallet",
     "-rescan", "-socks", "-disablewallet", "-timeout", "-paytxfee",
     "-mininput", "-wallet", "-masternodepaymentskey", "-sporkkey",
     "-onlynet", "-tor", "-reservebalance", "-loadblockindextest",
     "-printblockindex", "-printblock", "-upgradewallet", "-loadblock",
     "-masternode", "-masternodeaddr", "-masternodeprivkey",
     "-enabledarksend", "-darksendrounds", "-liquidityprovider",
     "-anonymizeSwippamount", "-enableinstantx", "-instantxdepth",
     "-litemode", "-reindexaddr", "-staking"}

NoArgs == [o \in OptionNames |-> <<>>]

\* The options of f given, every other option absent.
ArgsWith(f) == [o \in OptionNames |-> IF o \in DOMAIN f THEN f[o] ELSE <<>>]

Count(args, o) == IF args[o] = <<>> THEN 0 ELSE 1

Last(v) == v[Len(v)]

\* atoi() on the strings the model gives to boolean options.
Atoi(v) == IF v = "1" THEN 1 ELSE 0

\* util: an empty value ("-foo") is true, otherwise atoi(value) != 0.
InterpretBool(v) == IF v = "" THEN TRUE ELSE Atoi(v) # 0

GetBoolArg(args, o, fDefault) ==
    IF args[o] = <<>> THEN fDefault ELSE InterpretBool(Last(args[o]))

\* Numeric options hold the number their text parses to.
GetArg(args, o, nDefault) ==
    IF args[o] = <<>> THEN nDefault ELSE Last(args[o])

\* A soft set: assigns only an option the operator did not give.
SoftSetBoolArg(args, o, fValue) ==
    IF args[o] # <<>>
    THEN args
    ELSE [args EXCEPT ![o] = <<IF fValue THEN "1" ELSE "0">>]

(***************************************************************************)
(* Values the model gives to options, and what the collaborators make of   *)
(* them.                                                                   *)
(***************************************************************************)
GoodAddr == "127.0.0.1:9050"
BadAddr == "bogus:addr"
GoodAmount == "0.01"
BadAmount == "1,5x"
GoodKey == "92kyYbFWnSaCCaMXo8bc"
BadKey == "not-a-key"

\* CService::IsValid / Lookup on the model's addresses.
IsValidAddr(v) == v \in {GoodAddr, "10.0.0.1", "[::1]", "1.2.3.4"}

\* Lookup: whether a -bind address resolves.
Lookup(v) == v \in {GoodAddr, "10.0.0.1", "[::1]", "1.2.3.4"}

\* CNetAddr::GetNetwork on the model's addresses.
NetOf(v) == IF v \in {"[::1]", "::"} THEN "NET_IPV6" ELSE "NET_IPV4"

\* ParseMoney on the model's amounts.
ParseMoney(v) == v = GoodAmount

\* SetPrivKey / darkSendSigner.SetKey on the model's keys.
SetKeyOk(v) == v = GoodKey

\* ParseNetwork: NET_UNROUTABLE for a name it does not know.
ParseNetwork(v) ==
    CASE v = "ipv4" -> "NET_IPV4"
      [] v = "ipv6" -> "NET_IPV6"
      [] v = "tor"  -> "NET_TOR"
      [] OTHER      -> "NET_UNROUTABLE"

Networks == {"NET_UNROUTABLE", "NET_IPV4", "NET_IPV6", "NET_TOR"}

ProxyNets == {"NET_IPV4", "NET_IPV6", "NET_TOR"}

DataDir == "/home/swipp/.swipp"

(***************************************************************************)
(* collectionhashing.h: the hashes of the composite keys.  A std::size_t   *)
(* is a word of four limbs of 16 bits, the least significant first,        *)
(* so that sums wrap at the width of the word.                             *)
(***************************************************************************)
\* std::size_t has 64 bits: four limbs.
Limb == 65536

\* The word of an unsigned value given by its two low limbs.
Word(hi, lo) == <<lo, hi, 0, 0>>

\* Bitwise exclusive or of two limbs, by halves: 16 bits as two bytes, a byte
\* as two nibbles, and so on down to single bits.
Xor1(x, y) == (x + y) % 2

Xor2(x, y) == Xor1(x % 2, y % 2) + 2 * Xor1(x \div 2, y \div 2)

Xor4(x, y) == Xor2(x % 4, y % 4) + 4 * Xor2(x \div 4, y \div 4)

Xor8(x, y) == Xor4(x % 16, y % 16) + 16 * Xor4(x \div 16, y \div 16)

Xor(x, y) == Xor8(x % 256, y % 256) + 256 * Xor8(x \div 256, y \div 256)

XorW(x, y) == <<Xor(x[1], y[1]), Xor(x[2], y[2]), Xor(x[3], y[3]), Xor(x[4], y[4])>>

\* x + y modulo 2^64.
AddW(x, y) ==
    LET s1 == x[1] + y[1]
        s2 == x[2] + y[2] + (s1 \div Limb)
        s3 == x[3] + y[3] + (s2 \div Limb)
        s4 == x[4] + y[4] + (s3 \div Limb)
    IN  <<s1 % Limb, s2 % Limb, s3 % Limb, s4 % Limb>>

\* x << 6 and x >> 2 on a word.
Shl6(x) ==
    <<(x[1] * 64) % Limb,
      ((x[2] * 64) % Limb) + (x[1] \div 1024),
      ((x[3] * 64) % Limb) + (x[2] \div 1024),
      ((x[4] * 64) % Limb) + (x[3] \div 1024)>>

Shr2(x) ==
    <<(x[1] \div 4) + ((x[2] % 4) * 16384),
      (x[2] \div 4) + ((x[3] % 4) * 16384),
      (x[3] \div 4) + ((x[4] % 4) * 16384),
      x[4] \div 4>>

\* 0x9e3779b9
Golden == Word(40503, 31161)

\* boost::hash_combine(seed, v) on the digest v of the value:
\* seed ^= v + 0x9e3779b9 + (seed << 6) + (seed >> 2).
HashCombine(seed, v) ==
    XorW(seed, AddW(AddW(AddW(v, Golden), Shl6(seed)), Shr2(seed)))

\* boost::hash_range(first, last) over bytes: hash_combine of each in turn,
\* from the seed 0.
\* The bytes lo..hi folded into the seed in order, the lower half first: the
\* seed after the lower half is computed (and compared with the empty tuple,
\* which it never is) before the upper half is folded into it.
RECURSIVE HashRangeFrom(_, _, _, _)
HashRangeFrom(seed, bytes, lo, hi) ==
    IF lo > hi THEN seed
    ELSE IF lo = hi THEN HashCombine(seed, Word(0, bytes[lo]))
    ELSE LET mid == (lo + hi) \div 2
             next == HashRangeFrom(seed, bytes, lo, mid)
         IN  IF next = <<>> THEN next ELSE HashRangeFrom(next, bytes, mid + 1, hi)

HashRange(bytes) == HashRangeFrom(Word(0, 0), bytes, 1, Len(bytes))

\* The tuple hash with its components taken in the other order.
TupleHashSecondFirst(v) == HashCombine(HashRange(v[2]), HashRange(v[1]))

\* Lines 18-23: std::tuple<uint160, uint256>, each component by its bytes.
TupleHash(v) == HashCombine(HashRange(v[1]), HashRange(v[2]))

\* The pair hash with the output index of the outpoint combined in as well.
PairHashWithIndex(v) ==
    HashCombine(HashCombine(HashRange(v[1][1]), Word(v[1][2][1], v[1][2][2])),
                Word(v[2][1], v[2][2]))

\* Lines 25-30: std::pair<COutPoint, unsigned int>; v.first is <<hash, n>>
\* and only its hash is hashed, v.second is <<hi, lo>>.
PairHash(v) == HashCombine(HashRange(v[1][1]), Word(v[2][1], v[2][2]))

(***************************************************************************)
(* The stake-seen sets: google::dense_hash_set of                          *)
(* std::pair<COutPoint, unsigned int>, hashed by PairHash.  A key is       *)
(* <<outpoint, time>>, an outpoint <<hash, n>>, hash the bytes of the      *)
(* uint256 and n and time unsigned values <<hi, lo>>.  The table is open   *)
(* addressed: a slot holds a key, the empty key or the deleted key.        *)
(***************************************************************************)
\* Bytes of the model's uint256.
HashBytes == 4

\* Elements a table takes before it would be resized.
MaxLoad == 2

\* The table is enlarged at half its load.
NBuckets == 2 * MaxLoad

\* std::numeric_limits<unsigned int>::max() and the value below it.
UIntMax == <<65535, 65535>>
UIntMaxLess1 == <<65535, 65534>>

\* The bytes of the number b < 256 held in len bytes, from begin() to end().
Bytes(len, b) == [i \in 1..len |-> IF i = 1 THEN b ELSE 0]

Uint256(b) == Bytes(HashBytes, b)

\* COutPoint(): SetNull() makes hash 0 and n (unsigned int) -1.
NullOutPoint == <<Uint256(0), UIntMax>>

\* std::make_pair(COutPoint(), max) of line 344 and 345, and max - 1 of line 346.
EmptyKey == <<NullOutPoint, UIntMax>>
DeletedKey == <<NullOutPoint, UIntMaxLess1>>

\* A value-initialised key, the deleted key of a table that was given none.
DefaultKey == <<NullOutPoint, <<0, 0>>>>

\* A dense_hash_set as constructed: no sentinel, no table yet.  inserted
\* remembers the keys insert() put in and erase() has not taken out.
NewSet ==
    [ fEmpty      |-> FALSE,
      emptyKey    |-> DefaultKey,
      fDeleted    |-> FALSE,
      delKey      |-> DefaultKey,
      table       |-> <<>>,
      numElements |-> 0,
      numDeleted  |-> 0,
      inserted    |-> {} ]

\* set_empty_key: the table is allocated and filled with the empty key.
SetEmptyKey(S, k) ==
    [S EXCEPT !.fEmpty = TRUE, !.emptyKey = k, !.table = [i \in 1..NBuckets |-> k]]

SetDeletedKey(S, k) == [S EXCEPT !.fDeleted = TRUE, !.delKey = k]

TestEmpty(S, i) == S.table[i] = S.emptyKey

TestDeleted(S, i) == S.numDeleted > 0 /\ S.table[i] = S.delKey

\* hash(key) & (bucket_count - 1), on slots counted from 1.
Bucket(k) == (PairHash(k)[1] % NBuckets) + 1

\* find_position: quadratic probing from the key's bucket until the key or
\* an empty slot; the first deleted slot passed is where the key would go.
RECURSIVE Probe(_, _, _, _, _)
Probe(S, k, pos, nProbes, insertPos) ==
    LET next == ((pos + nProbes) % NBuckets) + 1 IN
    IF nProbes > 2 * NBuckets
    THEN [found |-> 0, insert |-> insertPos]
    ELSE IF TestEmpty(S, pos)
    THEN [found |-> 0, insert |-> IF insertPos = 0 THEN pos ELSE insertPos]
    ELSE IF TestDeleted(S, pos)
    THEN Probe(S, k, next, nProbes + 1, IF insertPos = 0 THEN pos ELSE insertPos)
    ELSE IF S.table[pos] = k
    THEN [found |-> pos, insert |-> 0]
    ELSE Probe(S, k, next, nProbes + 1, insertPos)

FindPosition(S, k) == Probe(S, k, Bucket(k), 0, 0)

\* find(k) != end(), count(k) == 1.
Contains(S, k) == S.fEmpty /\ FindPosition(S, k).found # 0

\* insert(k).
Insert(S, k) ==
    LET pos == FindPosition(S, k) IN
    IF pos.found # 0 \/ pos.insert = 0
    THEN S
    ELSE [S EXCEPT !.table[pos.insert] = k,
                   !.numDeleted = IF TestDeleted(S, pos.insert) THEN @ - 1 ELSE @,
                   !.numElements = IF TestDeleted(S, pos.insert) THEN @ ELSE @ + 1,
                   !.inserted = @ \cup {k}]

\* erase(k): the slot of the key takes the deleted key.
Erase(S, k) ==
    LET pos == FindPosition(S, k) IN
    IF pos.found = 0
    THEN S
    ELSE [S EXCEPT !.table[pos.found] = S.delKey,
                   !.numDeleted = @ + 1,
                   !.inserted = @ \ {k}]

\* What the assertions of insert() and of erase() demand of the caller.
MayInsert(S, k) == S.fEmpty /\ k # S.emptyKey /\ (S.fDeleted => k # S.delKey)

MayErase(S, k) == S.fEmpty /\ S.fDeleted /\ k # S.emptyKey /\ k # S.delKey

(***************************************************************************)
(* One process.                                                            *)
(***************************************************************************)
InitNode(args, calls, vary) ==
    [ pc               |-> "start",      \* where AppInit2 stands
      vary             |-> vary,         \* where the environment may answer otherwise
      args             |-> args,         \* mapArgs, as resolved so far
      raw              |-> args,         \* the options as the operator gave them
      ret              |-> <<>>,         \* <<v>> once AppInit2 has returned v
      log              |-> <<>>,         \* calls made to collaborators, in order
      errs             |-> <<>>,         \* InitError messages (stderr)
      warns            |-> <<>>,         \* InitWarning messages (stdout)
      fRequestShutdown |-> FALSE,
      fDisableWallet   |-> FALSE,
      nConnectTimeout  |-> 5000,
      dbOpen           |-> FALSE,        \* bitdb environment is open
      verify           |-> "none",       \* result of bitdb.Verify
      limited          |-> {},           \* SetLimited networks
      proxy            |-> [n \in ProxyNets |-> <<>>],  \* SetProxy: network -> <<address>>
      nameProxy        |-> <<>>,
      reachableTor     |-> FALSE,
      fNoListen        |-> FALSE,
      fDiscover        |-> TRUE,
      fBound           |-> FALSE,
      bound            |-> {},           \* endpoints BindListenPort bound
      local            |-> {},           \* AddLocal(LOCAL_MANUAL) addresses
      indexLoaded      |-> FALSE,        \* LoadBlockIndex returned true
      pwalletMain      |-> FALSE,        \* pwalletMain != NULL
      walletLoad       |-> "none",       \* result of LoadWallet
      fFirstRun        |-> FALSE,
      strErrors        |-> <<>>,
      rescanFrom       |-> <<>>,         \* <<height>> of pindexRescan
      pindexBest       |-> <<>>,         \* <<height>> of the best block
      threads          |-> {},           \* tasks created in threadGroup
      fMasterNode      |-> FALSE,
      fLiteMode        |-> FALSE,
      fEnableDarksend  |-> FALSE,
      nDarksendRounds  |-> 2,
      nLiquidityProvider |-> 0,
      nMinBlockSpacing |-> 0,
      nAnonymizeSwippAmount |-> 0,
      nInstantXDepth   |-> 0,
      sd               |-> [t \in Threads |-> "idle"],  \* where Shutdown() stands
      csShutdown       |-> {},           \* threads holding cs_Shutdown
      callsLeft        |-> calls,        \* Shutdown() calls each thread may make
      nBody            |-> 0,            \* executions of the teardown body begun
      overlapped       |-> FALSE,        \* a Shutdown() call began during another
      fAssert          |-> TRUE,         \* built with assertions (no NDEBUG)
      setStakeSeen       |-> NewSet,
      setStakeSeenOrphan |-> NewSet,
      found            |-> <<>>,         \* the last lookup: <<set, key, result>>
      hashIn           |-> <<>>,         \* <<kind, value>> handed to a hash
      hashOut          |-> <<>> ]        \* <<[a, b, ab, ba]>> once it is hashed

\* fprintf(stderr, ...) of InitError; the caller returns what it returns.
InitError(s, msg) == [s EXCEPT !.errs = Append(@, msg)]

InitWarning(s, msg) == [s EXCEPT !.warns = Append(@, msg)]

Return(s, v) == [s EXCEPT !.pc = "returned", !.ret = <<v>>]

Goto(s, pc) == [s EXCEPT !.pc = pc]

\* A call to a collaborator: its name, or its name and what it was called on.
Log(s, e) == [s EXCEPT !.log = Append(@, <<e>>)]

LogOn(s, e, x) == [s EXCEPT !.log = Append(@, <<e, x>>)]

Called(s, e) == \E i \in 1..Len(s.log) : s.log[i][1] = e

NCalls(s, e) == Cardinality({i \in 1..Len(s.log) : s.log[i][1] = e})

\* The least index of a non-empty set of indexes.
Least(I) == CHOOSE i \in I : \A j \in I : i <= j

(***************************************************************************)
(* Lines 70-75 and 130-134: StartShutdown and the SIGTERM handler.         *)
(***************************************************************************)
StartShutdown(s) == [s EXCEPT !.fRequestShutdown = TRUE]

\* A handler that stops the peers itself.
HandleSIGTERMStopping(s) == Log([s EXCEPT !.fRequestShutdown = TRUE], "StopNode")

HandleSIGTERM(s) == [s EXCEPT !.fRequestShutdown = TRUE]

(***************************************************************************)
(* AppInit2, lines 349-419: sentinels of the stake-seen sets, signal       *)
(* handlers, chain parameters.                                             *)
(***************************************************************************)
TestNet(args) == GetBoolArg(args, "-testnet", FALSE)

SelectParamsFromCommandLine(args) ==
    ~(GetBoolArg(args, "-testnet", FALSE) /\ GetBoolArg(args, "-regtest", FALSE))

\* A failed assertion: abort() ends the process.
Abort(s) == [Log(s, "abort") EXCEPT !.pc = "exited"]

\* Lines 342-347.  set_empty_key asserts that the set has no empty key yet;
\* without the assertion it allocates and fills a new table.
InitializeCollections(s) ==
    IF s.fAssert /\ (s.setStakeSeen.fEmpty \/ s.setStakeSeenOrphan.fEmpty)
    THEN Abort(s)
    ELSE [s EXCEPT !.setStakeSeen = SetEmptyKey(@, EmptyKey),
                   !.setStakeSeenOrphan = SetDeletedKey(SetEmptyKey(@, EmptyKey), DeletedKey)]

StepStart(s) ==
    LET s1 == InitializeCollections(Log(s, "InitializeCollections")) IN
    IF s1.pc = "exited"
    THEN s1
    ELSE IF ~SelectParamsFromCommandLine(s1.args)
    THEN Return(InitError(s1, <<"Invalid combination of -testnet and -regtest.">>), 0)
    ELSE Goto(s1, "params")

(***************************************************************************)
(* AppInit2, lines 421-474: parameter interaction.  The rules run in the   *)
(* order of the source, each on the options the rules before it left.      *)
(***************************************************************************)
RuleTestNet(a) ==
    IF TestNet(a) THEN SoftSetBoolArg(a, "-irc", TRUE) ELSE a

RuleBind(a) ==
    IF Count(a, "-bind") > 0 THEN SoftSetBoolArg(a, "-listen", TRUE) ELSE a

RuleConnect(a) ==
    IF Count(a, "-connect") > 0 /\ Len(a["-connect"]) > 0
    THEN SoftSetBoolArg(SoftSetBoolArg(a, "-dnsseed", FALSE), "-listen", FALSE)
    ELSE a

\* RuleProxy with -listen assigned outright.
RuleProxyHardSet(a) ==
    IF Count(a, "-proxy") > 0
    THEN SoftSetBoolArg([a EXCEPT !["-listen"] = <<"0">>], "-discover", FALSE)
    ELSE a

RuleProxy(a) ==
    IF Count(a, "-proxy") > 0
    THEN SoftSetBoolArg(SoftSetBoolArg(a, "-listen", FALSE), "-discover", FALSE)
    ELSE a

RuleNoListen(a) ==
    IF ~GetBoolArg(a, "-listen", TRUE)
    THEN SoftSetBoolArg(SoftSetBoolArg(a, "-upnp", FALSE), "-discover", FALSE)
    ELSE a

RuleExternalIp(a) ==
    IF Count(a, "-externalip") > 0 THEN SoftSetBoolArg(a, "-discover", FALSE) ELSE a

RuleSalvageWallet(a) ==
    IF GetBoolArg(a, "-salvagewallet", FALSE)
    THEN SoftSetBoolArg(a, "-rescan", TRUE)
    ELSE a

\* ParameterInteraction with the bind rule after the connect and proxy rules.
ParameterInteractionBindLater(a) ==
    RuleSalvageWallet(RuleExternalIp(RuleNoListen(RuleBind(RuleProxy(RuleConnect(
        RuleTestNet(a)))))))

ParameterInteraction(a) ==
    RuleSalvageWallet(RuleExternalIp(RuleNoListen(RuleProxy(RuleConnect(
        RuleBind(RuleTestNet(a)))))))

StepParams(s) ==
    Goto([s EXCEPT !.args = ParameterInteraction(s.args)], "flags")

(***************************************************************************)
(* AppInit2, lines 476-551: flags, -socks, -timeout, fee amounts, sanity   *)
(* check, wallet file name.  fSane is what ECC_InitSanityCheck answers.    *)
(***************************************************************************)
\* Lines 508-514: a -timeout outside 1..599999 leaves nConnectTimeout alone.
NewConnectTimeout(args, nConnectTimeout) ==
    IF Count(args, "-timeout") > 0
    THEN LET nNewTimeout == GetArg(args, "-timeout", 5000) IN
         IF nNewTimeout > 0 /\ nNewTimeout < 600000
         THEN nNewTimeout
         ELSE nConnectTimeout
    ELSE nConnectTimeout

\* Line 549: the wallet file name must be a plain file name.
PlainFileName(v) == v = "wallet.dat"

StepFlags(s, fSane) ==
    LET a  == s.args
        s1 == [s EXCEPT !.fDisableWallet = GetBoolArg(a, "-disablewallet", FALSE),
                        !.nConnectTimeout = NewConnectTimeout(a, s.nConnectTimeout)]
        strWalletFileName == GetArg(a, "-wallet", "wallet.dat")
    IN
    IF Count(a, "-socks") > 0
    THEN Return(InitError(s, <<"Unsupported argument -socks found">>), 0)
    ELSE IF Count(a, "-paytxfee") > 0 /\ ~ParseMoney(Last(a["-paytxfee"]))
    THEN Return(InitError(s1, <<"Invalid amount for -paytxfee", Last(a["-paytxfee"])>>), 0)
    ELSE IF Count(a, "-mininput") > 0 /\ ~ParseMoney(Last(a["-mininput"]))
    THEN Return(InitError(s1, <<"Invalid amount for -mininput", Last(a["-mininput"])>>), 0)
    ELSE IF ~fSane
    THEN Return(InitError(InitError(s1, <<"OpenSSL lacks elliptic curve support">>),
                          <<"Initialization sanity check failed">>), 0)
    ELSE IF ~PlainFileName(strWalletFileName)
    THEN Return(InitError(s1, <<"Wallet resides outside data directory",
                                strWalletFileName, DataDir>>), 0)
    ELSE Goto(s1, "lock")

(***************************************************************************)
(* AppInit2, lines 553-564: the instance guard.  fopen(".lock", "a")       *)
(* creates the file; try_lock fails when another process holds the lock.   *)
(***************************************************************************)
\* try_lock that takes the lock whoever holds it.
TryLockAlways(holders, p) == TRUE

TryLock(holders, p) == holders \ {p} = {}

\* try_lock by the process that holds the lock already: granted again where
\* the lock belongs to the process (fcntl), refused where it belongs to the
\* handle (LockFileEx).
TryLockAgain(holders, p) == IF p \in holders THEN BOOLEAN ELSE {TryLock(holders, p)}

\* fopen(pathLockFile, "a"): the file is created when it does not exist.
StepLockFile(s, fExists) ==
    Goto(LogOn(s, "fopen(.lock)", IF fExists THEN "exists" ELSE "created"), "trylock")

\* StepLock going on after a refused lock.
StepLockIgnored(s, fLocked) ==
    Goto(Log(s, IF fLocked THEN "try_lock:ok" ELSE "try_lock:failed"), "keys")

StepLock(s, fLocked) ==
    IF ~fLocked
    THEN Return(InitError(Log(s, "try_lock:failed"),
                          <<"Cannot obtain a lock on data directory", DataDir>>), EEXIST)
    ELSE Goto(Log(s, "try_lock:ok"), "keys")

(***************************************************************************)
(* AppInit2, lines 566-591: control keys.                                  *)
(***************************************************************************)
StepKeys(s) ==
    LET a == s.args IN
    IF Count(a, "-masternodepaymentskey") > 0 /\ ~SetKeyOk(GetArg(a, "-masternodepaymentskey", ""))
    THEN Return(InitError(s, <<"Unable to sign masternode payment winner, wrong key?">>), 0)
    ELSE IF Count(a, "-sporkkey") > 0 /\ ~SetKeyOk(GetArg(a, "-sporkkey", ""))
    THEN Return(InitError(s, <<"Unable to sign spork message, wrong key?">>), 0)
    ELSE Goto(s, "dbenv")

(***************************************************************************)
(* AppInit2, lines 598-626: the wallet database environment.  fOpen1 and   *)
(* fOpen2 are what the first and the second bitdb.Open answer, fRename     *)
(* whether moving the old environment aside worked.                        *)
(***************************************************************************)
\* StepDbEnv giving up when the old environment cannot be moved aside.
StepDbEnvRenameFatal(s, fOpen1, fRename, fOpen2) ==
    IF s.fDisableWallet
    THEN Goto(s, "verify")
    ELSE LET s1 == Log(s, "bitdb.Open") IN
         IF fOpen1
         THEN Goto([s1 EXCEPT !.dbOpen = TRUE], "verify")
         ELSE LET s2 == Log(s1, IF fRename THEN "rename:ok" ELSE "rename:failed")
                  s3 == Log(s2, "bitdb.Open")
              IN
              IF ~fRename
              THEN Return(InitError(s2, <<"Error initializing wallet database environment",
                                          DataDir>>), 0)
              ELSE IF ~fOpen2
              THEN Return(InitError(s3, <<"Error initializing wallet database environment",
                                          DataDir>>), 0)
              ELSE Goto([s3 EXCEPT !.dbOpen = TRUE], "verify")

\* StepDbEnv opening the environment with the wallet disabled too.
StepDbEnvAlways(s, fOpen1, fRename, fOpen2) ==
    LET s1 == Log(s, "bitdb.Open") IN
    IF fOpen1
    THEN Goto([s1 EXCEPT !.dbOpen = TRUE], "verify")
    ELSE LET s2 == Log(Log(s1, IF fRename THEN "rename:ok" ELSE "rename:failed"),
                       "bitdb.Open")
         IN
         IF ~fOpen2
         THEN Return(InitError(s2, <<"Error initializing wallet database environment",
                                     DataDir>>), 0)
         ELSE Goto([s2 EXCEPT !.dbOpen = TRUE], "verify")

StepDbEnv(s, fOpen1, fRename, fOpen2) ==
    IF s.fDisableWallet
    THEN Goto(s, "verify")
    ELSE LET s1 == Log(s, "bitdb.Open") IN
         IF fOpen1
         THEN Goto([s1 EXCEPT !.dbOpen = TRUE], "verify")
         ELSE LET s2 == Log(Log(s1, IF fRename THEN "rename:ok" ELSE "rename:failed"),
                            "bitdb.Open")
              IN
              IF ~fOpen2
              THEN Return(InitError(s2, <<"Error initializing wallet database environment",
                                          DataDir>>), 0)
              ELSE Goto([s2 EXCEPT !.dbOpen = TRUE], "verify")

(***************************************************************************)
(* AppInit2, lines 628-650: salvage and integrity check of the wallet.     *)
(* fRecover is what CWalletDB::Recover answers, fExists whether the wallet *)
(* file exists, r what bitdb.Verify answers.                               *)
(***************************************************************************)
VerifyResults == {"VERIFY_OK", "RECOVER_OK", "RECOVER_FAIL"}

\* StepVerify with nothing said about a salvaged wallet.
StepVerifyNoWarning(s, fRecover, fExists, r) ==
    IF s.fDisableWallet
    THEN Goto(s, "network")
    ELSE LET fSalvage == GetBoolArg(s.args, "-salvagewallet", FALSE)
             s1 == IF fSalvage
                   THEN LogOn(s, "CWalletDB::Recover", IF fRecover THEN "ok" ELSE "failed")
                   ELSE s
         IN
         IF fSalvage /\ ~fRecover
         THEN Return(s1, 0)
         ELSE IF ~fExists
         THEN Goto(s1, "network")
         ELSE LET s2 == [Log(s1, "bitdb.Verify") EXCEPT !.verify = r] IN
              IF r = "RECOVER_FAIL"
              THEN Return(InitError(s2, <<"wallet.dat corrupt, salvage failed">>), 0)
              ELSE Goto(s2, "network")

\* StepVerify with nothing said about a wallet that could not be salvaged.
StepVerifySilent(s, fRecover, fExists, r) ==
    IF s.fDisableWallet
    THEN Goto(s, "network")
    ELSE LET fSalvage == GetBoolArg(s.args, "-salvagewallet", FALSE)
             s1 == IF fSalvage
                   THEN LogOn(s, "CWalletDB::Recover", IF fRecover THEN "ok" ELSE "failed")
                   ELSE s
         IN
         IF fSalvage /\ ~fRecover
         THEN Return(s1, 0)
         ELSE IF ~fExists
         THEN Goto(s1, "network")
         ELSE LET s2 == [Log(s1, "bitdb.Verify") EXCEPT !.verify = r] IN
              IF r = "RECOVER_FAIL"
              THEN Return(s2, 0)
              ELSE IF r = "RECOVER_OK"
              THEN Goto(InitWarning(s2, <<"wallet.dat corrupt, data salvaged", DataDir>>),
                        "network")
              ELSE Goto(s2, "network")

StepVerify(s, fRecover, fExists, r) ==
    IF s.fDisableWallet
    THEN Goto(s, "network")
    ELSE LET fSalvage == GetBoolArg(s.args, "-salvagewallet", FALSE)
             s1 == IF fSalvage
                   THEN LogOn(s, "CWalletDB::Recover", IF fRecover THEN "ok" ELSE "failed")
                   ELSE s
         IN
         IF fSalvage /\ ~fRecover
         THEN Return(s1, 0)
         ELSE IF ~fExists
         THEN Goto(s1, "network")
         ELSE LET s2 == [Log(s1, "bitdb.Verify") EXCEPT !.verify = r] IN
              IF r = "RECOVER_FAIL"
              THEN Return(InitError(s2, <<"wallet.dat corrupt, salvage failed">>), 0)
              ELSE IF r = "RECOVER_OK"
              THEN Goto(InitWarning(s2, <<"wallet.dat corrupt, data salvaged", DataDir>>),
                        "network")
              ELSE Goto(s2, "network")

(***************************************************************************)
(* AppInit2, lines 655-718: -onlynet, -proxy, -tor.                        *)
(***************************************************************************)
\* Lines 657-681: the networks to limit, or the first unknown network name.
BadNets(list) == {i \in 1..Len(list) : ParseNetwork(list[i]) = "NET_UNROUTABLE"}

OnlyNets(list) == {ParseNetwork(list[i]) : i \in 1..Len(list)}

\* UseTor not looking for the value 0.
UseTorWhateverValue(a, fProxy) == fProxy \/ Count(a, "-tor") > 0

\* Lines 703-718.
UseTor(a, fProxy) ==
    /\ ~(Count(a, "-tor") > 0 /\ Last(a["-tor"]) = "0")
    /\ (fProxy \/ Count(a, "-tor") > 0)

OnionAddr(a) ==
    IF Count(a, "-tor") = 0 THEN Last(a["-proxy"]) ELSE Last(a["-tor"])

StepTor(s, fProxy) ==
    LET a == s.args IN
    IF ~UseTor(a, fProxy)
    THEN Goto(s, "bind")
    ELSE IF ~IsValidAddr(OnionAddr(a))
    THEN Return(InitError(s, <<"Invalid -tor address", GetArg(a, "-tor", "")>>), 0)
    ELSE Goto([s EXCEPT !.proxy["NET_TOR"] = <<OnionAddr(a)>>, !.reachableTor = TRUE],
              "bind")

\* StepProxy registering the proxy for IPv4 alone.
StepProxyIPv4Only(s) ==
    LET a == s.args IN
    IF Count(a, "-proxy") = 0
    THEN StepTor(s, FALSE)
    ELSE LET addrProxy == Last(a["-proxy"]) IN
         IF ~IsValidAddr(addrProxy)
         THEN Return(InitError(s, <<"Invalid -proxy address", addrProxy>>), 0)
         ELSE StepTor([s EXCEPT
                  !.proxy = [n \in ProxyNets |->
                               IF n = "NET_IPV4" /\ n \notin s.limited
                               THEN <<addrProxy>> ELSE s.proxy[n]],
                  !.nameProxy = <<addrProxy>>], TRUE)

StepProxy(s) ==
    LET a == s.args IN
    IF Count(a, "-proxy") = 0
    THEN StepTor(s, FALSE)
    ELSE LET addrProxy == Last(a["-proxy"]) IN
         IF ~IsValidAddr(addrProxy)
         THEN Return(InitError(s, <<"Invalid -proxy address", addrProxy>>), 0)
         ELSE StepTor([s EXCEPT
                  !.proxy = [n \in ProxyNets |->
                               IF n \in {"NET_IPV4", "NET_IPV6"} /\ n \notin s.limited
                               THEN <<addrProxy>> ELSE s.proxy[n]],
                  !.nameProxy = <<addrProxy>>], TRUE)

\* StepNetwork reading -onlynet without limiting any network.
StepNetworkUnlimited(s) ==
    LET a  == s.args
        s1 == Log(s, "RegisterNodeSignals")
    IN
    IF Count(a, "-onlynet") > 0 /\ BadNets(a["-onlynet"]) # {}
    THEN Return(InitError(s1, <<"Unknown network specified in -onlynet",
                                a["-onlynet"][Least(BadNets(a["-onlynet"]))]>>), 0)
    ELSE StepProxy(s1)

StepNetwork(s) ==
    LET a  == s.args
        s1 == Log(s, "RegisterNodeSignals")
    IN
    IF Count(a, "-onlynet") = 0
    THEN StepProxy(s1)
    ELSE IF BadNets(a["-onlynet"]) # {}
    THEN Return(InitError(s1, <<"Unknown network specified in -onlynet",
                                a["-onlynet"][Least(BadNets(a["-onlynet"]))]>>), 0)
    ELSE StepProxy([s1 EXCEPT !.limited = Networks \ OnlyNets(a["-onlynet"])])

(***************************************************************************)
(* AppInit2, lines 720-756, and Bind, lines 160-176.  okAddrs are the      *)
(* endpoints on which BindListenPort succeeds.                             *)
(***************************************************************************)
IsLimited(s, addr) == NetOf(addr) \in s.limited

\* fBound |= Bind(addr, fError)
Bind(s, addr, fError, okAddrs) ==
    IF IsLimited(s, addr)
    THEN s
    ELSE LET s1 == LogOn(s, "BindListenPort", addr) IN
         IF addr \in okAddrs
         THEN [s1 EXCEPT !.fBound = TRUE, !.bound = @ \cup {addr}]
         ELSE IF fError
         THEN InitError(s1, <<"Unable to bind", addr>>)
         ELSE s1

\* Lines 730-741: the -bind addresses, in order, up to the first that does
\* not resolve.
RECURSIVE BindEach(_, _, _)
BindEach(s, list, okAddrs) ==
    IF list = <<>>
    THEN s
    ELSE IF ~Lookup(Head(list))
    THEN Return(InitError(s, <<"Cannot resolve -bind address", Head(list)>>), 0)
    ELSE BindEach(Bind(s, Head(list), TRUE, okAddrs), Tail(list), okAddrs)

\* The wildcard binds of lines 742-752 taken in the other order: IPv4
\* first, without an error message, then IPv6, with one if nothing is bound.
BindAnyIPv4First(s, okAddrs) ==
    LET s1 == IF ~IsLimited(s, "0.0.0.0") THEN Bind(s, "0.0.0.0", FALSE, okAddrs) ELSE s
    IN  IF ~IsLimited(s1, "::")
        THEN Bind(s1, "::", ~s1.fBound, okAddrs)
        ELSE s1

\* BindAny leaving IPv4 alone once IPv6 is bound.
BindAnyOneIsEnough(s, okAddrs) ==
    LET s1 == IF ~IsLimited(s, "::") THEN Bind(s, "::", FALSE, okAddrs) ELSE s
    IN  IF ~IsLimited(s1, "0.0.0.0") /\ ~s1.fBound
        THEN Bind(s1, "0.0.0.0", TRUE, okAddrs)
        ELSE s1

\* Lines 742-752: the wildcard addresses, IPv6 first.
BindAny(s, okAddrs) ==
    LET s1 == IF ~IsLimited(s, "::") THEN Bind(s, "::", FALSE, okAddrs) ELSE s
    IN  IF ~IsLimited(s1, "0.0.0.0")
        THEN Bind(s1, "0.0.0.0", ~s1.fBound, okAddrs)
        ELSE s1

\* StepBind going on with nothing bound.
StepBindUnbound(s, okAddrs) ==
    LET a  == s.args
        s1 == [s EXCEPT !.fNoListen = ~GetBoolArg(a, "-listen", TRUE),
                        !.fDiscover = GetBoolArg(a, "-discover", TRUE)]
    IN
    IF s1.fNoListen
    THEN Goto(s1, "extip")
    ELSE LET s2 == IF Count(a, "-bind") > 0
                   THEN BindEach(s1, a["-bind"], okAddrs)
                   ELSE BindAny(s1, okAddrs)
         IN
         IF s2.pc = "returned" THEN s2 ELSE Goto(s2, "extip")

StepBind(s, okAddrs) ==
    LET a  == s.args
        s1 == [s EXCEPT !.fNoListen = ~GetBoolArg(a, "-listen", TRUE),
                        !.fDiscover = GetBoolArg(a, "-discover", TRUE)]
    IN
    IF s1.fNoListen
    THEN Goto(s1, "extip")
    ELSE LET s2 == IF Count(a, "-bind") > 0
                   THEN BindEach(s1, a["-bind"], okAddrs)
                   ELSE BindAny(s1, okAddrs)
         IN
         IF s2.pc = "returned"
         THEN s2
         ELSE IF ~s2.fBound
         THEN Return(InitError(s2, <<"Failed to listen on any port. Use -listen=0 if you want this.">>), 0)
         ELSE Goto(s2, "extip")

(***************************************************************************)
(* AppInit2, lines 758-783: -externalip, -reservebalance.                  *)
(***************************************************************************)
BadAddrs(list) == {i \in 1..Len(list) : ~IsValidAddr(list[i])}

StepExtIp(s) ==
    LET a    == s.args
        list == a["-externalip"]
        \* the addresses AddLocal has taken before the first invalid one
        upto == IF BadAddrs(list) = {} THEN Len(list) ELSE Least(BadAddrs(list)) - 1
        s1   == [s EXCEPT !.local = {list[i] : i \in 1..upto}]
    IN
    IF BadAddrs(list) # {}
    THEN Return(InitError(s1, <<"Cannot resolve -externalip address",
                                list[Least(BadAddrs(list))]>>), 0)
    ELSE IF Count(a, "-reservebalance") > 0 /\ ~ParseMoney(Last(a["-reservebalance"]))
    THEN Return(InitError(s1, <<"Invalid amount for -reservebalance">>), 0)
    ELSE Goto(s1, "blockindex")

(***************************************************************************)
(* AppInit2, lines 785-837: the block index.  fLoaded is what              *)
(* LoadBlockIndex answers, best the best block it leaves (<<>>: none).     *)
(***************************************************************************)
\* StepBlockIndex going on after LoadBlockIndex failed.
StepBlockIndexIgnored(s, fLoaded, best) ==
    LET s1 == Log(s, "LoadBlockIndex") IN
    IF fLoaded
    THEN Goto([s1 EXCEPT !.indexLoaded = TRUE, !.pindexBest = best], "wallet")
    ELSE Goto(s1, "wallet")

StepBlockIndex(s, fLoaded, best) ==
    LET a == s.args IN
    IF GetBoolArg(a, "-loadblockindextest", FALSE)
    THEN Return(Log(s, "CTxDB::LoadBlockIndex"), 0)
    ELSE LET s1 == Log(s, "LoadBlockIndex") IN
         IF ~fLoaded
         THEN Return(InitError(s1, <<"Error loading block database">>), 0)
         ELSE LET s2 == [s1 EXCEPT !.indexLoaded = TRUE, !.pindexBest = best] IN
              IF s2.fRequestShutdown
              THEN Return(s2, 0)
              ELSE IF GetBoolArg(a, "-printblockindex", FALSE)
              THEN Return(Log(s2, "PrintBlockTree"), 0)
              ELSE IF Count(a, "-printblock") > 0
              THEN Return(s2, 0)
              ELSE Goto(s2, "wallet")

(***************************************************************************)
(* AppInit2, lines 839-943: the wallet.  nLoadWalletRet and fFirstRun are  *)
(* what LoadWallet answers, fDowngrade whether the wallet's version is     *)
(* above the allowed one, fKey and fBook what GetKeyFromPool and           *)
(* SetAddressBookName answer, locator what ReadBestBlock reads: <<>> when  *)
(* it reads nothing, else <<b>> with b the block the locator leads to.     *)
(***************************************************************************)
DBErrors == {"DB_LOAD_OK", "DB_CORRUPT", "DB_NONCRITICAL_ERROR", "DB_TOO_NEW",
             "DB_LOAD_FAIL", "DB_NEED_REWRITE"}

\* Blocks are known by their height; <<>> is the null pointer.
Blocks == {<<>>} \cup {<<h>> : h \in 0..MaxHeight}

pindexGenesisBlock(s) == IF s.pindexBest = <<>> THEN <<>> ELSE <<0>>

\* Lines 853-873.
LoadErrors(s, nLoadWalletRet) ==
    CASE nLoadWalletRet = "DB_LOAD_OK" -> s
      [] nLoadWalletRet = "DB_CORRUPT" ->
           [s EXCEPT !.strErrors = Append(@, "Error loading wallet.dat: Wallet corrupted")]
      [] nLoadWalletRet = "DB_NONCRITICAL_ERROR" ->
           InitWarning(s, <<"error reading wallet.dat">>)
      [] nLoadWalletRet = "DB_TOO_NEW" ->
           [s EXCEPT !.strErrors = Append(@, "Error loading wallet.dat: Wallet requires newer version of Swipp")]
      [] nLoadWalletRet = "DB_NEED_REWRITE" ->
           [s EXCEPT !.strErrors = Append(@, "Wallet needed to be rewritten: restart Swipp to complete")]
      [] OTHER ->
           [s EXCEPT !.strErrors = Append(@, "Error loading wallet.dat")]

\* Lines 875-892.
UpgradeWallet(s, fDowngrade) ==
    IF GetBoolArg(s.args, "-upgradewallet", s.fFirstRun) /\ fDowngrade
    THEN [s EXCEPT !.strErrors = Append(@, "Cannot downgrade wallet")]
    ELSE s

\* Lines 894-909.
FirstRun(s, fKey, fBook) ==
    IF ~s.fFirstRun
    THEN s
    ELSE LET s1 == IF fKey /\ ~fBook
                   THEN [s EXCEPT !.strErrors = Append(@, "Cannot write default address")]
                   ELSE s
         IN  LogOn(s1, "SetBestChain", s1.pindexBest)

\* RescanStart taking the wallet's locator whatever -rescan says.
RescanStartLocatorOnly(s, locator) ==
    IF locator # <<>> THEN locator[1] ELSE pindexGenesisBlock(s)

\* Lines 915-928: where the rescan starts.
RescanStart(s, locator) ==
    IF GetBoolArg(s.args, "-rescan", FALSE)
    THEN pindexGenesisBlock(s)
    ELSE IF locator # <<>>
    THEN locator[1]
    ELSE pindexGenesisBlock(s)

\* NeedRescan without the comparison of the heights.
NeedRescanAnyOther(pindexBest, pindexRescan) ==
    /\ pindexBest # pindexRescan
    /\ pindexBest # <<>>
    /\ pindexRescan # <<>>

\* Line 930.
NeedRescan(pindexBest, pindexRescan) ==
    /\ pindexBest # pindexRescan
    /\ pindexBest # <<>>
    /\ pindexRescan # <<>>
    /\ pindexBest[1] > pindexRescan[1]

\* Rescan leaving the wallet's best-chain pointer as it was.
RescanNoWriteBack(s, locator) ==
    LET pindexRescan == RescanStart(s, locator)
        s1 == [Log(s, "RegisterWallet") EXCEPT !.rescanFrom = <<pindexRescan>>]
    IN
    IF NeedRescan(s.pindexBest, pindexRescan)
    THEN LogOn(s1, "ScanForWalletTransactions", pindexRescan)
    ELSE s1

\* Lines 915-942.
Rescan(s, locator) ==
    LET pindexRescan == RescanStart(s, locator)
        s0 == IF GetBoolArg(s.args, "-rescan", FALSE)
              THEN Log(s, "RegisterWallet")
              ELSE LogOn(Log(s, "RegisterWallet"), "ReadBestBlock", locator)
        s1 == [s0 EXCEPT !.rescanFrom = <<pindexRescan>>]
    IN
    IF NeedRescan(s.pindexBest, pindexRescan)
    THEN LogOn(LogOn(s1, "ScanForWalletTransactions", pindexRescan),
               "SetBestChain", s1.pindexBest)
    ELSE s1

StepWallet(s, nLoadWalletRet, fFirstRun, fDowngrade, fKey, fBook, locator) ==
    IF s.fDisableWallet
    THEN Goto([s EXCEPT !.pwalletMain = FALSE], "import")
    ELSE LET s1 == [Log(s, "LoadWallet") EXCEPT
                       !.pwalletMain = TRUE,
                       !.walletLoad = nLoadWalletRet,
                       !.fFirstRun = fFirstRun]
             s2 == LoadErrors(s1, nLoadWalletRet)
         IN
         IF nLoadWalletRet = "DB_NEED_REWRITE"
         THEN Return(InitError(s2, s2.strErrors), 0)
         ELSE Goto(Rescan(FirstRun(UpgradeWallet(s2, fDowngrade), fKey, fBook), locator),
                   "import")

(***************************************************************************)
(* AppInit2, lines 949-980: block import task, address book, disk space,   *)
(* the errors the wallet load left.  fDisk is what CheckDiskSpace answers. *)
(***************************************************************************)
CreateThread(s, task) ==
    [LogOn(s, "create_thread", task) EXCEPT !.threads = @ \cup {task}]

\* StepImport starting the peer networking along with the import task.
StepImportNodeFirst(s, fDisk) ==
    LET s1 == Log(Log(Log(CreateThread(s, "ThreadImport"), "StartNode"),
                      "CAddrDB::Read"), "SecureMsgStart")
    IN
    IF ~fDisk
    THEN Return(StartShutdown(LogOn(s1, "CheckDiskSpace", "failed")), 0)
    ELSE LET s2 == LogOn(s1, "CheckDiskSpace", "ok") IN
         IF s2.strErrors # <<>>
         THEN Return(InitError(s2, s2.strErrors), 0)
         ELSE Goto(s2, "masternode")

\* StepImport going on with startup after a failed disk check.
StepImportGoingOn(s, fDisk) ==
    LET s1 == Log(Log(CreateThread(s, "ThreadImport"), "CAddrDB::Read"), "SecureMsgStart")
        s2 == IF fDisk
              THEN LogOn(s1, "CheckDiskSpace", "ok")
              ELSE StartShutdown(LogOn(s1, "CheckDiskSpace", "failed"))
    IN
    IF s2.strErrors # <<>>
    THEN Return(InitError(s2, s2.strErrors), 0)
    ELSE Goto(s2, "masternode")

StepImport(s, fDisk) ==
    LET s1 == Log(Log(CreateThread(s, "ThreadImport"), "CAddrDB::Read"), "SecureMsgStart")
    IN
    IF ~fDisk
    THEN Return(StartShutdown(LogOn(s1, "CheckDiskSpace", "failed")), 0)
    ELSE LET s2 == LogOn(s1, "CheckDiskSpace", "ok") IN
         IF s2.strErrors # <<>>
         THEN Return(InitError(s2, s2.strErrors), 0)
         ELSE Goto(s2, "masternode")

(***************************************************************************)
(* AppInit2, lines 982-1013: masternode address and key.                   *)
(***************************************************************************)
\* StepMasterNode going on without a key.
StepMasterNodeKeyOptional(s) ==
    LET a  == s.args
        s1 == [s EXCEPT !.fMasterNode = GetBoolArg(a, "-masternode", FALSE)]
        strMasterNodeAddr == GetArg(a, "-masternodeaddr", "")
        strMasterNodePrivKey == GetArg(a, "-masternodeprivkey", "")
    IN
    IF ~s1.fMasterNode
    THEN Goto(s1, "darksend")
    ELSE IF strMasterNodeAddr # "" /\ ~IsValidAddr(strMasterNodeAddr)
    THEN Return(InitError(s1, <<"Invalid -masternodeaddr address", strMasterNodeAddr>>), 0)
    ELSE IF strMasterNodePrivKey # "" /\ ~SetKeyOk(strMasterNodePrivKey)
    THEN Return(InitError(s1, <<"Invalid masternodeprivkey.">>), 0)
    ELSE Goto(s1, "darksend")

StepMasterNode(s) ==
    LET a  == s.args
        s1 == [s EXCEPT !.fMasterNode = GetBoolArg(a, "-masternode", FALSE)]
        strMasterNodeAddr == GetArg(a, "-masternodeaddr", "")
        strMasterNodePrivKey == GetArg(a, "-masternodeprivkey", "")
    IN
    IF ~s1.fMasterNode
    THEN Goto(s1, "darksend")
    ELSE IF strMasterNodeAddr # "" /\ ~IsValidAddr(strMasterNodeAddr)
    THEN Return(InitError(s1, <<"Invalid -masternodeaddr address", strMasterNodeAddr>>), 0)
    ELSE IF strMasterNodePrivKey = ""
    THEN Return(InitError(s1, <<"You must specify a masternodeprivkey in the configuration.">>), 0)
    ELSE IF ~SetKeyOk(strMasterNodePrivKey)
    THEN Return(InitError(s1, <<"Invalid masternodeprivkey.">>), 0)
    ELSE Goto(s1, "darksend")

(***************************************************************************)
(* AppInit2, lines 1015-1060: mixing options and lite mode.                *)
(***************************************************************************)
Min(x, y) == IF x < y THEN x ELSE y

\* The rounds kept as the operator gave them.
ClampRoundsKept(n) == n

\* Lines 1016-1022.
ClampRounds(n) == IF n > 16 THEN 16 ELSE IF n < 1 THEN 1 ELSE n

\* Lines 1033-1039.
ClampAmount(n) == IF n > 999999 THEN 999999 ELSE IF n < 2 THEN 2 ELSE n

\* Lines 1045-1048.
ClampDepth(n) == IF n > 60 THEN 60 ELSE n

\* Lines 1024-1031.
Liquidity(s) ==
    LET n == GetArg(s.args, "-liquidityprovider", 0) IN
    IF n # 0
    THEN [s EXCEPT !.nLiquidityProvider = n,
                   !.nMinBlockSpacing = Min(n, 100) * 15,
                   !.fEnableDarksend = TRUE,
                   !.nDarksendRounds = 99999]
    ELSE [s EXCEPT !.nLiquidityProvider = n]

\* Lines 1041-1054.
InstantX(s) ==
    IF GetBoolArg(s.args, "-enableinstantx", TRUE)
    THEN LET n == ClampDepth(GetArg(s.args, "-instantxdepth", 5)) IN
         IF n < 0
         THEN [s EXCEPT !.nInstantXDepth = n, !.nAnonymizeSwippAmount = 0]
         ELSE [s EXCEPT !.nInstantXDepth = n]
    ELSE [s EXCEPT !.nInstantXDepth = 0]

\* StepDarksend without the lite mode check of lines 1056-1060.
StepDarksendAnyMode(s) ==
    LET a  == s.args
        s1 == [s EXCEPT !.fEnableDarksend = GetBoolArg(a, "-enabledarksend", FALSE),
                        !.nDarksendRounds = ClampRounds(GetArg(a, "-darksendrounds", 2))]
        s2 == [Liquidity(s1) EXCEPT
                  !.nAnonymizeSwippAmount = ClampAmount(GetArg(a, "-anonymizeSwippamount", 0))]
        s3 == [InstantX(s2) EXCEPT !.fLiteMode = GetBoolArg(a, "-litemode", FALSE)]
    IN
    Goto(s3, "threads")

StepDarksend(s) ==
    LET a  == s.args
        s1 == [s EXCEPT !.fEnableDarksend = GetBoolArg(a, "-enabledarksend", FALSE),
                        !.nDarksendRounds = ClampRounds(GetArg(a, "-darksendrounds", 2))]
        s2 == [Liquidity(s1) EXCEPT
                  !.nAnonymizeSwippAmount = ClampAmount(GetArg(a, "-anonymizeSwippamount", 0))]
        s3 == [InstantX(s2) EXCEPT !.fLiteMode = GetBoolArg(a, "-litemode", FALSE)]
    IN
    IF s3.fMasterNode /\ s3.fLiteMode
    THEN Return(InitError(s3, <<"You can not start a masternode in litemode">>), 0)
    ELSE Goto(s3, "threads")

(***************************************************************************)
(* AppInit2, lines 1062-1148: the background services.                     *)
(***************************************************************************)
\* StepThreads creating the staking task without looking for a wallet.
StepThreadsStakeAlways(s) ==
    LET a  == s.args
        s1 == CreateThread(Log(s, "InitCollateralAddress"), "ThreadCheckDarkSendPool")
        s2 == IF GetBoolArg(a, "-reindexaddr", FALSE)
              THEN Log(s1, "RebuildAddressIndex") ELSE s1
        s3 == Log(Log(Log(s2, "StartNode"), "InitRPCMining"), "StartRPCThreads")
        s4 == IF GetBoolArg(a, "-staking", TRUE)
              THEN CreateThread(s3, "ThreadStakeMiner") ELSE s3
        s5 == IF s4.pwalletMain
              THEN CreateThread(Log(s4, "ReacceptWalletTransactions"), "ThreadFlushWalletDB")
              ELSE s4
    IN  Goto(s5, "final")

StepThreads(s) ==
    LET a  == s.args
        s1 == CreateThread(Log(s, "InitCollateralAddress"), "ThreadCheckDarkSendPool")
        s2 == IF GetBoolArg(a, "-reindexaddr", FALSE)
              THEN Log(s1, "RebuildAddressIndex") ELSE s1
        s3 == Log(Log(Log(s2, "StartNode"), "InitRPCMining"), "StartRPCThreads")
        s4 == IF GetBoolArg(a, "-staking", TRUE) /\ s3.pwalletMain
              THEN CreateThread(s3, "ThreadStakeMiner") ELSE s3
        s5 == IF s4.pwalletMain
              THEN CreateThread(Log(s4, "ReacceptWalletTransactions"), "ThreadFlushWalletDB")
              ELSE s4
    IN  Goto(s5, "final")

\* Line 1150.
\* AppInit2 returning its success value whatever the flag says.
StepFinalAlways(s) == Return(s, 1)

\* Line 1150.
StepFinal(s) == Return(s, IF s.fRequestShutdown THEN 0 ELSE 1)

(***************************************************************************)
(* Shutdown, lines 82-128, run by thread t.  cs_Shutdown is a static       *)
(* critical section taken with TRY_LOCK and released when Shutdown         *)
(* returns.                                                                *)
(***************************************************************************)
\* Lines 86-90: TRY_LOCK gets the critical section unless another thread
\* holds it.
TryEnter(cs, t) == cs \ {t} = {}

\* Lines 82-84: the call.
ShutdownEnter(s, t) ==
    [s EXCEPT !.sd[t] = "trylock", !.callsLeft[t] = @ - 1,
              !.overlapped = @ \/ \E u \in Threads \ {t} : s.sd[u] # "idle"]

\* Lines 86-90.
ShutdownTryLock(s, t) ==
    IF TryEnter(s.csShutdown, t)
    THEN [s EXCEPT !.sd[t] = "stop", !.csShutdown = @ \cup {t}, !.nBody = @ + 1]
    ELSE [s EXCEPT !.sd[t] = "idle"]

\* Lines 92-102.
ShutdownStop(s, t) ==
    LET s1 == Log(Log(Log(s, "StopRPCThreads"), "SecureMsgShutdown"), "ShutdownRPCMining")
        s2 == IF s1.pwalletMain THEN Log(s1, "bitdb.Flush(false)") ELSE s1
    IN  [s2 EXCEPT !.sd[t] = "net"]

\* ShutdownNet with the best chain persisted before the peers are stopped.
ShutdownNetPersistFirst(s, t) ==
    LET s1 == IF s.pwalletMain THEN LogOn(s, "SetBestChain", s.pindexBest) ELSE s
        s2 == Log(s1, "StopNode")
        s3 == IF s2.pwalletMain THEN Log(s2, "bitdb.Flush(true)") ELSE s2
    IN  [s3 EXCEPT !.sd[t] = "files"]

\* Lines 104-117.
ShutdownNet(s, t) ==
    LET s1 == Log(s, "StopNode")
        s2 == IF s1.pwalletMain
              THEN Log(LogOn(s1, "SetBestChain", s1.pindexBest), "bitdb.Flush(true)")
              ELSE s1
    IN  [s2 EXCEPT !.sd[t] = "files"]

\* Lines 119-120.  boost::filesystem::remove throws when it fails; the
\* exception leaves Shutdown, which releases cs_Shutdown on the way.
ShutdownFiles(s, t, fRemove) ==
    IF ~fRemove
    THEN [Log(s, "remove:throws") EXCEPT !.sd[t] = "idle", !.csShutdown = @ \ {t}]
    ELSE [Log(Log(s, "remove(GetPidFile)"), "UnregisterAllWallets") EXCEPT !.sd[t] = "free"]

\* Lines 122-128.
ShutdownFree(s, t) ==
    LET s1 == IF s.pwalletMain THEN Log(s, "delete pwalletMain") ELSE s
    IN  [Log(s1, "Shutdown : done") EXCEPT
            !.pwalletMain = FALSE, !.sd[t] = "idle", !.csShutdown = @ \ {t}]

(***************************************************************************)
(* The environment.  A run names the collaborators that may answer other   *)
(* than plainly (node[p].vary); every other collaborator gives its plain   *)
(* answer: the call succeeds, the file is there and sound.                 *)
(***************************************************************************)
Classes == {"sanity", "dbenv", "verify", "bind", "index", "wallet", "rescan",
            "disk", "signal", "pidfile"}

Answers(s, class, all, plain) == IF class \in s.vary THEN all ELSE {plain}

BindEndpoints == {"::", "0.0.0.0", "10.0.0.1", "[::1]"}

Locators == {<<>>} \cup {<<b>> : b \in Blocks}

(***************************************************************************)
(* The actions: process p takes one step.                                  *)
(***************************************************************************)
Step(p, s) ==
    /\ node' = [node EXCEPT ![p] = s]
    /\ UNCHANGED <<lockHolders, lockFile>>

At(p, pc) == node[p].pc = pc

\* A process that aborts gives up the lock it may hold.
DoStart(p) ==
    /\ At(p, "start")
    /\ node' = [node EXCEPT ![p] = StepStart(node[p])]
    /\ lockHolders' = IF StepStart(node[p]).pc = "exited"
                      THEN lockHolders \ {p} ELSE lockHolders
    /\ UNCHANGED lockFile

DoParams(p) == At(p, "params") /\ Step(p, StepParams(node[p]))

DoFlags(p) ==
    /\ At(p, "flags")
    /\ \E fSane \in Answers(node[p], "sanity", BOOLEAN, TRUE) :
          Step(p, StepFlags(node[p], fSane))

DoLockFile(p) ==
    /\ At(p, "lock")
    /\ lockFile' = TRUE
    /\ node' = [node EXCEPT ![p] = StepLockFile(node[p], lockFile)]
    /\ UNCHANGED lockHolders

DoLock(p) ==
    /\ At(p, "trylock")
    /\ \E fLocked \in TryLockAgain(lockHolders, p) :
       /\ node' = [node EXCEPT ![p] = StepLock(node[p], fLocked)]
       /\ lockHolders' = IF fLocked THEN lockHolders \cup {p} ELSE lockHolders
    /\ UNCHANGED lockFile

DoKeys(p) == At(p, "keys") /\ Step(p, StepKeys(node[p]))

DoDbEnv(p) ==
    /\ At(p, "dbenv")
    /\ \E fOpen1, fRename, fOpen2 \in Answers(node[p], "dbenv", BOOLEAN, TRUE) :
          Step(p, StepDbEnv(node[p], fOpen1, fRename, fOpen2))

DoVerify(p) ==
    /\ At(p, "verify")
    /\ \E fRecover, fExists \in Answers(node[p], "verify", BOOLEAN, TRUE),
          r \in Answers(node[p], "verify", VerifyResults, "VERIFY_OK") :
          Step(p, StepVerify(node[p], fRecover, fExists, r))

DoNetwork(p) == At(p, "network") /\ Step(p, StepNetwork(node[p]))

DoBind(p) ==
    /\ At(p, "bind")
    /\ \E okAddrs \in Answers(node[p], "bind", SUBSET BindEndpoints, BindEndpoints) :
          Step(p, StepBind(node[p], okAddrs))

DoExtIp(p) == At(p, "extip") /\ Step(p, StepExtIp(node[p]))

DoBlockIndex(p) ==
    /\ At(p, "blockindex")
    /\ \E fLoaded \in Answers(node[p], "index", BOOLEAN, TRUE),
          best \in Answers(node[p], "rescan", Blocks, <<MaxHeight>>) :
          Step(p, StepBlockIndex(node[p], fLoaded, best))

DoWallet(p) ==
    /\ At(p, "wallet")
    /\ \E nLoadWalletRet \in Answers(node[p], "wallet", DBErrors, "DB_LOAD_OK"),
          fFirstRun \in Answers(node[p], "wallet", BOOLEAN, FALSE),
          fDowngrade \in Answers(node[p], "wallet", BOOLEAN, FALSE),
          fKey, fBook \in Answers(node[p], "wallet", BOOLEAN, TRUE),
          locator \in Answers(node[p], "rescan", Locators, <<node[p].pindexBest>>) :
          Step(p, StepWallet(node[p], nLoadWalletRet, fFirstRun, fDowngrade, fKey,
                             fBook, locator))

DoImport(p) ==
    /\ At(p, "import")
    /\ \E fDisk \in Answers(node[p], "disk", BOOLEAN, TRUE) :
          Step(p, StepImport(node[p], fDisk))

DoMasterNode(p) == At(p, "masternode") /\ Step(p, StepMasterNode(node[p]))

DoDarksend(p) == At(p, "darksend") /\ Step(p, StepDarksend(node[p]))

DoThreads(p) == At(p, "threads") /\ Step(p, StepThreads(node[p]))

DoFinal(p) == At(p, "final") /\ Step(p, StepFinal(node[p]))

\* A termination signal, once AppInit2 has installed the handler.
Signal(p) ==
    /\ node[p].pc \notin {"start", "exited"}
    /\ "signal" \in node[p].vary
    /\ Step(p, HandleSIGTERM(node[p]))

CallShutdown(p, t) ==
    /\ At(p, "returned")
    /\ node[p].sd[t] = "idle"
    /\ node[p].callsLeft[t] > 0
    /\ Step(p, ShutdownEnter(node[p], t))

DoShutdown(p, t) ==
    LET s == node[p] IN
    /\ At(p, "returned")
    /\ s.sd[t] # "idle"
    /\ \E fRemove \in Answers(s, "pidfile", BOOLEAN, TRUE) :
          Step(p, CASE s.sd[t] = "trylock" -> ShutdownTryLock(s, t)
                    [] s.sd[t] = "stop"    -> ShutdownStop(s, t)
                    [] s.sd[t] = "net"     -> ShutdownNet(s, t)
                    [] s.sd[t] = "files"   -> ShutdownFiles(s, t, fRemove)
                    [] OTHER               -> ShutdownFree(s, t))

\* The process ends; the static file_lock goes with it (line 560).
ProcessExit(p) ==
    /\ At(p, "returned")
    /\ \A t \in Threads : node[p].sd[t] = "idle"
    /\ node' = [node EXCEPT ![p].pc = "exited"]
    /\ lockHolders' = lockHolders \ {p}
    /\ UNCHANGED lockFile

AppInit2(p) ==
    \/ DoStart(p)
    \/ DoParams(p)
    \/ DoFlags(p)
    \/ DoLockFile(p)
    \/ DoLock(p)
    \/ DoKeys(p)
    \/ DoDbEnv(p)
    \/ DoVerify(p)
    \/ DoNetwork(p)
    \/ DoBind(p)
    \/ DoExtIp(p)
    \/ DoBlockIndex(p)
    \/ DoWallet(p)
    \/ DoImport(p)
    \/ DoMasterNode(p)
    \/ DoDarksend(p)
    \/ DoThreads(p)
    \/ DoFinal(p)

Next ==
    \E p \in Procs :
       \/ AppInit2(p)
       \/ Signal(p)
       \/ \E t \in Threads : CallShutdown(p, t)
       \/ \E t \in Threads : DoShutdown(p, t)
       \/ ProcessExit(p)

(***************************************************************************)
(* Specifications.  They differ in the options the processes are started   *)
(* with and in how many processes and Shutdown() callers there are.        *)
(***************************************************************************)
NoCalls == [t \in Threads |-> 0]

OneCall == [t \in Threads |-> IF t = 1 THEN 1 ELSE 0]

AllCalls == [t \in Threads |-> MaxCalls]

\* A process slot nothing was started in.
NotRunning == [InitNode(NoArgs, NoCalls, {}) EXCEPT !.pc = "exited"]

Opt(o, vals) == [{o} -> vals]

One(o, v) == [x \in {o} |-> v]

None == [x \in {} |-> <<>>]

\* The runs in which at most n collaborators answer otherwise.
Varying(n) == {v \in SUBSET Classes : Cardinality(v) <= n}

\* A masternode with a sound key.
MasterNode == One("-masternode", <<"1">>) @@ One("-masternodeprivkey", <<GoodKey>>)

\* The options that steer startup, in every combination.
BaseArgs ==
    {a @@ b @@ c @@ d :
        a \in Opt("-disablewallet", {<<>>, <<"1">>}),
        b \in Opt("-listen", {<<>>, <<"0">>}),
        c \in {None, MasterNode},
        d \in Opt("-litemode", {<<>>, <<"1">>})}

\* One more option, sound or not.
ExtraArgs ==
    {One("-socks", <<"5">>),
     One("-paytxfee", <<GoodAmount>>), One("-paytxfee", <<BadAmount>>),
     One("-mininput", <<BadAmount>>),
     One("-wallet", <<"../wallet.dat">>),
     One("-masternodepaymentskey", <<BadKey>>), One("-sporkkey", <<BadKey>>),
     One("-salvagewallet", <<"1">>),
     One("-onlynet", <<"ipv4">>), One("-onlynet", <<"ipv4", "bogusnet">>),
     One("-proxy", <<GoodAddr>>), One("-proxy", <<BadAddr>>),
     One("-tor", <<GoodAddr>>), One("-tor", <<BadAddr>>),
     One("-tor", <<"0">>) @@ One("-proxy", <<GoodAddr>>),
     One("-bind", <<"10.0.0.1", "[::1]">>), One("-bind", <<"10.0.0.1", BadAddr>>),
     One("-externalip", <<"1.2.3.4">>), One("-externalip", <<"1.2.3.4", BadAddr>>),
     One("-reservebalance", <<BadAmount>>),
     One("-loadblockindextest", <<"1">>), One("-printblockindex", <<"1">>),
     One("-printblock", <<"00000a">>),
     One("-rescan", <<"1">>), One("-upgradewallet", <<"1">>),
     One("-reindexaddr", <<"1">>), One("-staking", <<"0">>),
     One("-masternode", <<"1">>),
     MasterNode @@ One("-masternodeaddr", <<GoodAddr>>),
     MasterNode @@ One("-masternodeaddr", <<BadAddr>>),
     One("-masternode", <<"1">>) @@ One("-masternodeprivkey", <<BadKey>>),
     One("-testnet", <<"1">>) @@ One("-regtest", <<"1">>)}

StartupArgs ==
    {ArgsWith(a) : a \in BaseArgs}
    \cup {ArgsWith(x @@ a) : x \in ExtraArgs, a \in Opt("-disablewallet", {<<>>, <<"1">>})}

Start(argsets, calls, varies) ==
    /\ lockHolders = {}
    /\ lockFile \in BOOLEAN
    /\ \E a \in argsets, v \in varies :
          node = [p \in Procs |-> IF p = 1 THEN InitNode(a, calls, v) ELSE NotRunning]

\* One process, one Shutdown() after AppInit2 has returned.
Init == Start(StartupArgs, OneCall, Varying(MaxVary))

Spec == Init /\ [][Next]_vars

(***************************************************************************)
(* Parameter interaction alone, on every combination of the options the    *)
(* rules read and write.                                                   *)
(***************************************************************************)
SoftOptions == {"-listen", "-dnsseed", "-discover", "-upnp", "-rescan", "-irc"}

InteractionArgs ==
    {ArgsWith(soft @@ bind @@ connect @@ proxy @@ extip @@ salvage @@ testnet) :
        soft    \in [SoftOptions -> {<<>>, <<"0">>, <<"1">>}],
        bind    \in Opt("-bind", {<<>>, <<"10.0.0.1">>}),
        connect \in Opt("-connect", {<<>>, <<"10.0.0.1">>}),
        proxy   \in Opt("-proxy", {<<>>, <<GoodAddr>>}),
        extip   \in Opt("-externalip", {<<>>, <<"1.2.3.4">>}),
        salvage \in Opt("-salvagewallet", {<<>>, <<"1">>}),
        testnet \in Opt("-testnet", {<<>>, <<"1">>})}

InitParams == Start(InteractionArgs, NoCalls, {{}})

NextParams == \E p \in Procs : DoStart(p) \/ DoParams(p)

SpecParams == InitParams /\ [][NextParams]_vars

\* C1: whatever the operator's options, an option the operator gave keeps
\* the operator's value through parameter interaction (and ever after):
\* the rules assign only options that were absent.
C1_ExplicitOptionsKept ==
    \A p \in Procs : \A o \in OptionNames :
        node[p].raw[o] # <<>> => node[p].args[o] = node[p].raw[o]

\* The rules have run on -proxy with an explicit -listen=1: -proxy's rule
\* would set -listen=0, and did set the absent -discover.
C1_Witness ==
    \E p \in Procs :
        /\ node[p].pc = "flags"
        /\ node[p].raw["-proxy"] # <<>>
        /\ node[p].raw["-listen"] = <<"1">>
        /\ node[p].raw["-discover"] = <<>>
        /\ node[p].args["-discover"] = <<"0">>
        /\ node[p].args["-listen"] = <<"1">>

(***************************************************************************)
(* Shutdown() called by two threads, each up to MaxCalls times, after a    *)
(* startup with or without a wallet.                                       *)
(***************************************************************************)
ShutdownArgs == {ArgsWith(a) : a \in Opt("-disablewallet", {<<>>, <<"1">>})}

InitShutdown == Start(ShutdownArgs, AllCalls, {{"signal"}})

SpecShutdown == InitShutdown /\ [][Next]_vars

\* Every thread has called Shutdown() at most once.
OneCallEach(s) == \A t \in Threads : s.callsLeft[t] >= MaxCalls - 1

\* C2: when two threads call Shutdown() concurrently, the teardown body
\* runs once and nothing is released twice: the wallet is deleted once,
\* the database is flushed and closed once, peer networking is stopped
\* once.
C2_ConcurrentShutdownOnce ==
    \A p \in Procs :
        (node[p].overlapped /\ OneCallEach(node[p])) =>
            /\ node[p].nBody <= 1
            /\ NCalls(node[p], "StopNode") <= 1
            /\ NCalls(node[p], "bitdb.Flush(true)") <= 1
            /\ NCalls(node[p], "delete pwalletMain") <= 1

\* C3: however often Shutdown() is called in one process, also after an
\* earlier call has returned, the teardown body runs at most once.
C3_ShutdownAtMostOnce ==
    \A p \in Procs :
        /\ node[p].nBody <= 1
        /\ NCalls(node[p], "StopRPCThreads") <= 1

(***************************************************************************)
(* Two processes started on the one data directory.  The wallet            *)
(* environment may fail to open, so a startup can fail after the lock was  *)
(* taken.                                                                  *)
(***************************************************************************)
InitGuard ==
    /\ lockHolders = {}
    /\ lockFile \in BOOLEAN
    /\ node = [p \in Procs |-> InitNode(NoArgs, OneCall, {"dbenv", "signal"})]

SpecGuard == InitGuard /\ [][Next]_vars

LockRefused(s) == Called(s, "try_lock:failed")

CreatedLockFile(s) ==
    \E i \in 1..Len(s.log) : s.log[i] = <<"fopen(.lock)", "created">>

DirectoryInUse(s) ==
    \E i \in 1..Len(s.errs) : s.errs[i][1] = "Cannot obtain a lock on data directory"

\* What AppInit2 does after the instance guard.
LaterSteps ==
    {"bitdb.Open", "CWalletDB::Recover", "bitdb.Verify", "RegisterNodeSignals",
     "BindListenPort", "LoadBlockIndex", "LoadWallet", "create_thread",
     "StartNode", "StartRPCThreads"}

\* C4: a process refused the lock because another process holds it returns
\* from AppInit2 with the error that names the data directory, has never
\* opened the storage environment and has run no later startup step; and a
\* process that had to create the lock file gets no error from creating it.
C4_LockedDirectoryAborts ==
    \A p \in Procs :
        LET s == node[p] IN
        /\ LockRefused(s) =>
              /\ s.pc \in {"returned", "exited"}
              /\ s.ret = <<EEXIST>>
              /\ s.errs = << <<"Cannot obtain a lock on data directory", DataDir>> >>
              /\ ~s.dbOpen
              /\ \A e \in LaterSteps : ~Called(s, e)
              /\ s.threads = {}
        /\ (CreatedLockFile(s) /\ s.pc = "trylock") =>
              s.errs = <<>> /\ s.ret = <<>>
        /\ (CreatedLockFile(s) /\ ~LockRefused(s)) => ~DirectoryInUse(s)

\* A process was refused while the other one holds the lock.
C4_Witness ==
    \E p \in Procs :
        /\ LockRefused(node[p])
        /\ node[p].pc = "returned"
        /\ lockHolders = Procs \ {p}

\* Past the instance guard: the lock was taken and the process lives.
PastGuard(s) == Called(s, "try_lock:ok") /\ s.pc # "exited"

\* C5: at most one of the processes on a data directory is past the
\* instance guard, and a process past the guard holds the lock in every
\* later state (after a failed startup, during and after Shutdown) until
\* it exits.
C5_OneInstancePerDirectory ==
    /\ Cardinality({p \in Procs : PastGuard(node[p])}) <= 1
    /\ \A p \in Procs : PastGuard(node[p]) => p \in lockHolders

\* A process whose startup failed after the lock was taken has run
\* Shutdown() to its end and still holds the lock, the other one refused.
C5_Witness ==
    \E p \in Procs :
        /\ PastGuard(node[p])
        /\ node[p].ret = <<0>>
        /\ Called(node[p], "Shutdown : done")
        /\ p \in lockHolders
        /\ \E q \in Procs \ {p} : LockRefused(node[q])

(***************************************************************************)
(* Configuration errors and the storage.                                   *)
(***************************************************************************)
\* The option errors of lines 478-551, raised before the instance guard.
EarlyErrors ==
    {"Invalid amount for -paytxfee", "Invalid amount for -mininput"}

\* The option errors of lines 655-783, raised between the integrity check
\* of the wallet and LoadBlockIndex.
NetErrors ==
    {"Unknown network specified in -onlynet", "Invalid -proxy address",
     "Invalid -tor address", "Cannot resolve -bind address",
     "Cannot resolve -externalip address", "Invalid amount for -reservebalance"}

\* The option errors of lines 982-1013, raised after the wallet was loaded.
MasterNodeErrors ==
    {"Invalid -masternodeaddr address", "Invalid masternodeprivkey."}

Reported(s, msgs) == \E i \in 1..Len(s.errs) : s.errs[i][1] \in msgs

ConfigurationError(s) == Reported(s, EarlyErrors \cup NetErrors \cup MasterNodeErrors)

\* C6 as stated: no configuration error is reported once the store was
\* opened or the block index loaded.
C6_ConfigErrorBeforeStorage ==
    \A p \in Procs :
        ConfigurationError(node[p]) =>
            /\ ~Called(node[p], "bitdb.Open")
            /\ ~Called(node[p], "LoadBlockIndex")

\* C6 amended: every configuration error aborts AppInit2 with the failure
\* value and before any service task other than the block import, but only
\* the -paytxfee and -mininput errors come before the storage is touched.
\* The -onlynet, -proxy, -tor, -bind, -externalip and -reservebalance
\* errors come after the wallet environment was opened, whenever the wallet
\* is enabled, and before the block index and the wallet are loaded; the
\* masternode address and key errors come after the block index was loaded
\* and, with the wallet enabled, after the environment was opened and the
\* wallet loaded.
C6_ConfigErrorStages ==
    \A p \in Procs :
        LET s == node[p] IN
        /\ ConfigurationError(s) =>
              /\ s.pc \in {"returned", "exited"}
              /\ s.ret = <<0>>
              /\ s.threads \subseteq {"ThreadImport"}
              /\ ~Called(s, "StartNode")
        /\ Reported(s, EarlyErrors) =>
              /\ ~Called(s, "fopen(.lock)")
              /\ ~Called(s, "bitdb.Open")
              /\ ~Called(s, "LoadBlockIndex")
              /\ ~s.dbOpen
        /\ Reported(s, NetErrors) =>
              /\ Called(s, "bitdb.Open") <=> ~s.fDisableWallet
              /\ s.dbOpen <=> ~s.fDisableWallet
              /\ ~Called(s, "LoadBlockIndex")
              /\ ~Called(s, "LoadWallet")
              /\ s.threads = {}
        /\ Reported(s, MasterNodeErrors) =>
              /\ Called(s, "LoadBlockIndex")
              /\ s.indexLoaded
              /\ Called(s, "bitdb.Open") <=> ~s.fDisableWallet
              /\ Called(s, "LoadWallet") <=> ~s.fDisableWallet
              /\ s.threads = {"ThreadImport"}

\* An unknown -onlynet network is reported with the wallet environment open.
C6_Witness ==
    \E p \in Procs :
        /\ Reported(node[p], {"Unknown network specified in -onlynet"})
        /\ node[p].dbOpen
        /\ Called(node[p], "bitdb.Open")
        /\ node[p].ret = <<0>>

(***************************************************************************)
(* The numeric options, in and out of their ranges.                        *)
(***************************************************************************)
RangeArgs ==
    {ArgsWith(a) : a \in Opt("-timeout", {<<0>>, <<1>>, <<599999>>, <<600000>>})}
    \cup {ArgsWith(a @@ b) :
            a \in Opt("-darksendrounds", {<<>>, <<0>>, <<1>>, <<16>>, <<17>>}),
            b \in Opt("-liquidityprovider", {<<>>, <<100>>, <<101>>})}
    \cup {ArgsWith(a @@ b @@ c) :
            a \in Opt("-anonymizeSwippamount", {<<>>, <<1>>, <<2>>, <<999999>>, <<1000000>>}),
            b \in Opt("-instantxdepth", {<<>>, <<-1>>, <<60>>, <<61>>}),
            c \in Opt("-enableinstantx", {<<>>, <<"0">>})}

InitRange == Start(RangeArgs, OneCall, Varying(MaxVary))

SpecRange == InitRange /\ [][Next]_vars

Given(a, o) == a[o] # <<>>

\* An option of a lies outside the range the code compares it with.
OutOfRange(a) ==
    \/ Given(a, "-timeout") /\ Last(a["-timeout"]) \notin 1..599999
    \/ Given(a, "-darksendrounds") /\ Last(a["-darksendrounds"]) \notin 1..16
    \/ Given(a, "-anonymizeSwippamount")
          /\ Last(a["-anonymizeSwippamount"]) \notin 2..999999
    \/ Given(a, "-instantxdepth") /\ Last(a["-instantxdepth"]) \notin 0..60
    \/ Given(a, "-liquidityprovider") /\ Last(a["-liquidityprovider"]) > 100

\* AppInit2 has returned.
Finished(s) == s.ret # <<>>

TimeoutSettled(s) == Called(s, "fopen(.lock)")

\* The mixing options were settled (lines 1015-1054 are behind).
MixingSettled(s) ==
    \/ s.pc \in {"threads", "final"}
    \/ Called(s, "InitCollateralAddress")

InvalidModeCombination(s) == Reported(s, {"You can not start a masternode in litemode"})

BothModes(a) == GetBoolArg(a, "-masternode", FALSE) /\ GetBoolArg(a, "-litemode", FALSE)

\* C8 as stated: when the mode error is reported no bind was attempted.
C8_ModeErrorBeforeBind ==
    \A p \in Procs :
        InvalidModeCombination(node[p]) => ~Called(node[p], "BindListenPort")

\* C8 amended: with masternode mode and lite mode both requested AppInit2
\* never returns its success value and never starts the mixing-pool task,
\* peer networking or the RPC threads; the mode error makes it return the
\* failure value with the block import as the only task created.  The
\* error comes after the binds: with listening enabled BindListenPort was
\* attempted before it, and the block index was loaded before it.
C8_ModeErrorAfterBind ==
    \A p \in Procs :
        LET s == node[p] IN
        /\ BothModes(s.raw) =>
              /\ s.ret # <<1>>
              /\ s.threads \subseteq {"ThreadImport"}
              /\ ~Called(s, "InitCollateralAddress")
              /\ ~Called(s, "StartNode")
              /\ ~Called(s, "StartRPCThreads")
        /\ InvalidModeCombination(s) =>
              /\ BothModes(s.raw)
              /\ Finished(s)
              /\ s.ret = <<0>>
              /\ s.threads = {"ThreadImport"}
              /\ Called(s, "BindListenPort") <=> ~s.fNoListen
              /\ ~s.fNoListen => s.bound # {}
              /\ Called(s, "LoadBlockIndex")

\* The mode error is reported with a port bound.
C8_Witness ==
    \E p \in Procs :
        /\ InvalidModeCombination(node[p])
        /\ Called(node[p], "BindListenPort")
        /\ node[p].bound # {}
        /\ node[p].ret = <<0>>

(***************************************************************************)
(* What a successful return of AppInit2 stands for.                        *)
(***************************************************************************)
Logged(s, e) == \E i \in 1..Len(s.log) : s.log[i] = e

\* Every mandatory step of AppInit2 was run by s and succeeded.
MandatoryStepsDone(s) ==
    /\ Called(s, "try_lock:ok")
    /\ ~LockRefused(s)
    /\ ~s.fDisableWallet =>
          /\ Called(s, "bitdb.Open")
          /\ s.dbOpen
          /\ s.verify \in {"none", "VERIFY_OK", "RECOVER_OK"}
          /\ s.verify = "none" <=> ~Called(s, "bitdb.Verify")
          /\ Called(s, "LoadWallet")
          /\ s.walletLoad \in {"DB_LOAD_OK", "DB_NONCRITICAL_ERROR"}
    /\ Called(s, "LoadBlockIndex")
    /\ s.indexLoaded
    /\ s.fNoListen \/ s.bound # {}
    /\ s.strErrors = <<>>
    /\ Logged(s, <<"CheckDiskSpace", "ok">>)
    /\ ~Logged(s, <<"CheckDiskSpace", "failed">>)
    /\ s.fMasterNode =>
          /\ SetKeyOk(GetArg(s.args, "-masternodeprivkey", ""))
          /\ LET addr == GetArg(s.args, "-masternodeaddr", "") IN
             addr = "" \/ IsValidAddr(addr)
          /\ ~s.fLiteMode
    /\ \A i \in 1..Len(s.errs) : s.errs[i][1] = "Unable to bind"

\* AppInit2 returns its success value in this step.
ReturnsSuccess(p) == node[p].ret = <<>> /\ node'[p].ret = <<1>>

\* C9: whenever AppInit2 has returned its success value, every mandatory
\* step was run and succeeded (lock, store opened and verified and wallet
\* loaded without error when the wallet is enabled, block index, a bound
\* port unless listening is disabled, disk space, masternode checks), and
\* the step that returns the success value is taken with no shutdown
\* request raised.
C9_SuccessMeansAllSteps ==
    /\ [](\A p \in Procs : node[p].ret = <<1>> => MandatoryStepsDone(node[p]))
    /\ [][\A p \in Procs :
             ReturnsSuccess(p) =>
                 /\ ~node[p].fRequestShutdown
                 /\ ~node'[p].fRequestShutdown
                 /\ MandatoryStepsDone(node'[p])]_vars

\* A masternode with its wallet started successfully and is running.
C9_Witness ==
    \E p \in Procs :
        /\ node[p].pc = "returned"
        /\ node[p].ret = <<1>>
        /\ node[p].fMasterNode
        /\ ~node[p].fDisableWallet
        /\ node[p].dbOpen
        /\ ~node[p].fRequestShutdown
        /\ "ThreadFlushWalletDB" \in node[p].threads

(***************************************************************************)
(* The background services and what was loaded before them.                *)
(***************************************************************************)
TaskEvents == {"create_thread", "StartNode", "StartRPCThreads"}

LoadingEvents ==
    {"fopen(.lock)", "bitdb.Open", "CWalletDB::Recover", "bitdb.Verify",
     "LoadBlockIndex", "LoadWallet", "RegisterWallet", "ScanForWalletTransactions"}

TaskStarted(s) == \E e \in TaskEvents : Called(s, e)

\* C10 as stated: a task is created only with the store opened and the
\* block index loaded.
C10_TasksAfterStore ==
    \A p \in Procs :
        TaskStarted(node[p]) =>
            /\ Called(node[p], "bitdb.Open")
            /\ node[p].dbOpen
            /\ node[p].indexLoaded

\* C10 amended: every task is created after LoadBlockIndex has returned
\* successfully and after every loading step AppInit2 runs.  With the
\* wallet enabled that includes the storage environment being open, the
\* wallet file, where there is one, having passed the integrity check,
\* LoadWallet having returned and the rescan having been done where one
\* was due; with the wallet disabled no storage environment is opened at
\* all.  The block import task is created even when the wallet load has
\* left an error; every other task only with no such error and the disk
\* space check passed.
C10_TasksAfterLoading ==
    \A p \in Procs :
        LET s == node[p] IN
        /\ TaskStarted(s) =>
              /\ s.indexLoaded
              /\ Called(s, "LoadBlockIndex")
              /\ \A i, j \in 1..Len(s.log) :
                    (s.log[i][1] \in TaskEvents /\ s.log[j][1] \in LoadingEvents) => j < i
              /\ s.fDisableWallet => ~Called(s, "bitdb.Open") /\ ~s.dbOpen
              /\ ~s.fDisableWallet =>
                    /\ Called(s, "bitdb.Open")
                    /\ s.dbOpen
                    /\ s.verify \in {"none", "VERIFY_OK", "RECOVER_OK"}
                    /\ Called(s, "LoadWallet")
                    /\ s.rescanFrom # <<>>
                    /\ NeedRescan(s.pindexBest, s.rescanFrom[1]) =>
                          Called(s, "ScanForWalletTransactions")
        /\ (s.threads \ {"ThreadImport"} # {} \/ Called(s, "StartNode")) =>
              /\ s.strErrors = <<>>
              /\ Logged(s, <<"CheckDiskSpace", "ok">>)

\* Every service of a node without wallet runs, and no storage environment
\* was opened.
C10_Witness ==
    \E p \in Procs :
        /\ node[p].fDisableWallet
        /\ ~node[p].dbOpen
        /\ node[p].indexLoaded
        /\ Called(node[p], "StartNode")
        /\ {"ThreadImport", "ThreadCheckDarkSendPool"} \subseteq node[p].threads

(***************************************************************************)
(* The teardown body: Shutdown() called by two threads, each up to         *)
(* MaxCalls times, with a pid file whose removal may fail.                 *)
(***************************************************************************)
InitTeardown == Start(ShutdownArgs, AllCalls, {{"signal", "pidfile"}})

SpecTeardown == InitTeardown /\ [][Next]_vars

\* The names of the calls in the log.
Names(log) == [i \in 1..Len(log) |-> log[i][1]]

\* Where the executions of the teardown body begin in the log.
BodyStarts(log) == {i \in 1..Len(log) : log[i][1] = "StopRPCThreads"}

\* The calls of the body execution that begins at k.
BodyAt(log, k) ==
    LET later == {i \in BodyStarts(log) : i > k}
        last  == IF later = {} THEN Len(log) ELSE Least(later) - 1
    IN  SubSeq(Names(log), k, last)

IsPrefix(a, b) == Len(a) <= Len(b) /\ a = SubSeq(b, 1, Len(a))

\* C11 as stated: within a body execution the best-chain pointer is
\* persisted before peer networking is stopped.
C11_PersistBeforeStopNode ==
    \A p \in Procs : \A k \in BodyStarts(node[p].log) :
        LET b == BodyAt(node[p].log, k) IN
        \A i, j \in 1..Len(b) :
            (b[i] = "SetBestChain" /\ b[j] = "StopNode") => i < j

\* The body as lines 92-127 run it, with a wallet object and without one.
TeardownWithWallet ==
    <<"StopRPCThreads", "SecureMsgShutdown", "ShutdownRPCMining", "bitdb.Flush(false)",
      "StopNode", "SetBestChain", "bitdb.Flush(true)", "remove(GetPidFile)",
      "UnregisterAllWallets", "delete pwalletMain", "Shutdown : done">>

TeardownNoWallet ==
    <<"StopRPCThreads", "SecureMsgShutdown", "ShutdownRPCMining", "StopNode",
      "remove(GetPidFile)", "UnregisterAllWallets", "Shutdown : done">>

\* The same, left at the removal of the pid file.
TeardownWithWalletThrown == SubSeq(TeardownWithWallet, 1, 7) \o <<"remove:throws">>

TeardownNoWalletThrown == SubSeq(TeardownNoWallet, 1, 4) \o <<"remove:throws">>

Teardowns ==
    {TeardownWithWallet, TeardownNoWallet, TeardownWithWalletThrown, TeardownNoWalletThrown}

\* C11 amended: in every execution of the teardown body the steps occur
\* in this order: RPC work is stopped first, then the wallet is flushed a
\* first time, then peer networking is stopped, then the best-chain pointer
\* is persisted to the wallet and the wallet state flushed and closed, then
\* the pid file is removed, then the wallets are unregistered and the
\* wallet object deleted.  The best-chain pointer is persisted after peer
\* networking is stopped, not before.
C11_TeardownOrder ==
    \A p \in Procs : \A k \in BodyStarts(node[p].log) :
        LET b == BodyAt(node[p].log, k) IN
        /\ \E e \in Teardowns : IsPrefix(b, e)
        /\ \A i, j \in 1..Len(b) :
              (b[i] = "SetBestChain" /\ b[j] = "StopNode") => j < i
        /\ (\E i \in BodyStarts(node[p].log) : i > k) => b \in Teardowns

\* A body execution with a wallet has run to its end.
C11_Witness ==
    \E p \in Procs : \E k \in BodyStarts(node[p].log) :
        BodyAt(node[p].log, k) = TeardownWithWallet

\* No thread of s is inside the teardown body.
BodyLeft(s) == s.csShutdown = {}

\* C12: every teardown body that was started has run to its end, whatever
\* step failed: the wallets were unregistered and the completion logged
\* as often as the body was entered.
C12_TeardownCompletes ==
    \A p \in Procs :
        BodyLeft(node[p]) =>
            /\ NCalls(node[p], "UnregisterAllWallets") = node[p].nBody
            /\ NCalls(node[p], "Shutdown : done") = node[p].nBody

(***************************************************************************)
(* Opening the storage environment.                                        *)
(***************************************************************************)
StoreUnavailable(s) == Reported(s, {"Error initializing wallet database environment"})

\* The calls of s from the first bitdb.Open up to the step after the open.
OpenCalls(s) ==
    LET n == Names(s.log) IN
    SelectSeq(n, LAMBDA e : e \in {"bitdb.Open", "rename:ok", "rename:failed"})

\* s stands right behind the opening of the environment.
JustOpened(s) ==
    /\ Called(s, "bitdb.Open")
    /\ \A e \in {"CWalletDB::Recover", "bitdb.Verify", "RegisterNodeSignals"} : ~Called(s, e)

\* C13: the environment is opened at most twice; a second open follows a
\* failed first one with one rename attempt in between, whether or not the
\* rename worked; AppInit2 fails at this step exactly when both opens
\* failed, and goes on when the second open worked.
C13_OpenRetriedOnce ==
    \A p \in Procs :
        LET s == node[p] IN
        /\ OpenCalls(s) \in {<<>>, <<"bitdb.Open">>,
                             <<"bitdb.Open", "rename:ok", "bitdb.Open">>,
                             <<"bitdb.Open", "rename:failed", "bitdb.Open">>}
        /\ StoreUnavailable(s) <=> (NCalls(s, "bitdb.Open") = 2 /\ ~s.dbOpen)
        /\ StoreUnavailable(s) =>
              /\ Finished(s)
              /\ s.ret = <<0>>
              /\ s.errs = << <<"Error initializing wallet database environment", DataDir>> >>
              /\ JustOpened(s)
        /\ (NCalls(s, "bitdb.Open") = 1 => s.dbOpen)
        /\ (JustOpened(s) /\ s.dbOpen) =>
              /\ s.pc \in {"verify", "network"}
              /\ s.ret = <<>>
              /\ s.errs = <<>>

\* The rename failed, the second open worked and AppInit2 went on to its
\* successful return.
C13_Witness ==
    \E p \in Procs :
        /\ OpenCalls(node[p]) = <<"bitdb.Open", "rename:failed", "bitdb.Open">>
        /\ node[p].dbOpen
        /\ node[p].ret = <<1>>

(***************************************************************************)
(* Salvage and the integrity check of the wallet.                          *)
(***************************************************************************)
Warned(s, msg) == \E i \in 1..Len(s.warns) : s.warns[i][1] = msg

SalvageFailed(s) == Logged(s, <<"CWalletDB::Recover", "failed">>)

WalletCorrupt(s) == Reported(s, {"wallet.dat corrupt, salvage failed"})

\* AppInit2 has gone on behind the integrity check.
PastVerify(s) == Called(s, "RegisterNodeSignals")

Before(s, e1, e2) ==
    \A i, j \in 1..Len(s.log) : (s.log[i][1] = e1 /\ s.log[j][1] = e2) => i < j

\* C14: the integrity check lets AppInit2 go on silently when the wallet
\* is sound, go on with a warning when it was salvaged, and makes it fail
\* with the wallet-corrupt error when it could not be salvaged; with
\* -salvagewallet the key-pair recovery runs before the integrity check and
\* its failure makes AppInit2 fail.
C14_IntegrityOutcomes ==
    \A p \in Procs :
        LET s == node[p]
            fSalvage == GetBoolArg(s.args, "-salvagewallet", FALSE)
        IN
        /\ Called(s, "bitdb.Verify") => s.dbOpen /\ Before(s, "bitdb.Open", "bitdb.Verify")
        /\ s.verify = "VERIFY_OK" =>
              /\ s.warns = <<>> \/ PastVerify(s)
              /\ ~Warned(s, "wallet.dat corrupt, data salvaged")
              /\ ~WalletCorrupt(s)
              /\ s.pc = "network" \/ PastVerify(s)
        /\ s.verify = "RECOVER_OK" =>
              /\ Warned(s, "wallet.dat corrupt, data salvaged")
              /\ ~WalletCorrupt(s)
              /\ s.pc = "network" \/ PastVerify(s)
        /\ s.verify = "RECOVER_FAIL" =>
              /\ WalletCorrupt(s)
              /\ Finished(s)
              /\ s.ret = <<0>>
              /\ ~PastVerify(s)
        /\ WalletCorrupt(s) => s.verify = "RECOVER_FAIL"
        /\ Warned(s, "wallet.dat corrupt, data salvaged") => s.verify = "RECOVER_OK"
        /\ (fSalvage /\ (Called(s, "bitdb.Verify") \/ PastVerify(s)) /\ ~s.fDisableWallet) =>
              /\ Logged(s, <<"CWalletDB::Recover", "ok">>)
              /\ Before(s, "CWalletDB::Recover", "bitdb.Verify")
        /\ Called(s, "CWalletDB::Recover") => fSalvage /\ s.dbOpen
        /\ SalvageFailed(s) =>
              /\ Finished(s)
              /\ s.ret = <<0>>
              /\ ~Called(s, "bitdb.Verify")
              /\ ~PastVerify(s)

\* A salvaged wallet: the warning is out and AppInit2 has returned its
\* success value.
C14_Witness ==
    \E p \in Procs :
        /\ node[p].verify = "RECOVER_OK"
        /\ Warned(node[p], "wallet.dat corrupt, data salvaged")
        /\ node[p].ret = <<1>>

(***************************************************************************)
(* What the caller of AppInit2 gets for the three failures of the store.   *)
(***************************************************************************)
\* The value AppInit2 returned and the errors it emitted.
Outcome(s) == <<s.ret, s.errs>>

OpenFailed(s) == NCalls(s, "bitdb.Open") = 2 /\ ~s.dbOpen /\ Finished(s)

IntegrityFailed(s) == s.verify = "RECOVER_FAIL"

OpenFailedOutcome ==
    << <<0>>, << <<"Error initializing wallet database environment", DataDir>> >> >>

SalvageFailedOutcome == << <<0>>, <<>> >>

IntegrityFailedOutcome == << <<0>>, << <<"wallet.dat corrupt, salvage failed">> >> >>

Fatal(s) ==
    /\ Finished(s)
    /\ \E i \in 1..Len(s.errs) : s.errs[i][1] # "Unable to bind"

\* AppInit2 returned with no error because a shutdown was requested.
StoppedOnRequest(s) == Finished(s) /\ s.errs = <<>> /\ s.fRequestShutdown /\ s.ret # <<1>>

\* C16: every fatal return differs from the success value, and the value
\* of a fatal return differs from the value returned when startup stops
\* on a shutdown request.
C16_ResultSeparatesOutcomes ==
    /\ \A p \in Procs : Fatal(node[p]) => node[p].ret # <<1>>
    /\ \A p, q \in Procs :
          (Fatal(node[p]) /\ StoppedOnRequest(node[q])) => node[p].ret # node[q].ret

(***************************************************************************)
(* The rescan of the wallet.                                               *)
(***************************************************************************)
\* The rescan start was chosen (lines 915-928 are behind).
StartChosen(s) == s.rescanFrom # <<>>

\* The block ScanForWalletTransactions was called on, if it was called.
Scanned(s) ==
    {s.log[i][2] : i \in {j \in 1..Len(s.log) : s.log[j][1] = "ScanForWalletTransactions"}}

\* C17: the wallet is rescanned only with a best block and a start block
\* that both exist and the best block strictly higher than the start; with
\* the best block missing, the start missing, the two the same or the
\* start at or above the best, there is no rescan.
C17_RescanSpanPositive ==
    \A p \in Procs :
        LET s == node[p] IN
        /\ Scanned(s) # {} =>
              /\ StartChosen(s)
              /\ Scanned(s) = {s.rescanFrom[1]}
              /\ s.pindexBest # <<>>
              /\ s.rescanFrom[1] # <<>>
              /\ s.pindexBest[1] > s.rescanFrom[1][1]
        /\ (StartChosen(s) /\ (s.pindexBest = <<>> \/ s.rescanFrom[1] = <<>>)) =>
              Scanned(s) = {}
        /\ (StartChosen(s) /\ s.pindexBest # <<>> /\ s.rescanFrom[1] # <<>>
               /\ s.rescanFrom[1][1] >= s.pindexBest[1]) =>
              Scanned(s) = {}

\* The wallet is ahead of the chain and was not rescanned.
C17_Witness ==
    \E p \in Procs :
        LET s == node[p] IN
        /\ StartChosen(s)
        /\ s.pindexBest # <<>>
        /\ s.rescanFrom[1] # <<>>
        /\ s.rescanFrom[1][1] > s.pindexBest[1]
        /\ Scanned(s) = {}
        /\ s.ret = <<1>>

\* What ReadBestBlock read, if it was called.
LocatorsRead(s) ==
    {s.log[i][2] : i \in {j \in 1..Len(s.log) : s.log[j][1] = "ReadBestBlock"}}

\* C18: the rescan starts at genesis when -rescan is in effect;
\* otherwise at the block the wallet's persisted locator leads to when the
\* locator can be read, and at genesis when it cannot.  The start is never
\* higher than the block of the wallet's locator.
C18_RescanStartChoice ==
    \A p \in Procs :
        LET s == node[p]
            genesis == IF s.pindexBest = <<>> THEN <<>> ELSE <<0>>
        IN
        StartChosen(s) =>
            IF GetBoolArg(s.args, "-rescan", FALSE)
            THEN /\ s.rescanFrom[1] = genesis
                 /\ LocatorsRead(s) = {}
            ELSE /\ Cardinality(LocatorsRead(s)) = 1
                 /\ \A l \in LocatorsRead(s) :
                       /\ l = <<>> => s.rescanFrom[1] = genesis
                       /\ l # <<>> => s.rescanFrom[1] = l[1]
                       /\ (l # <<>> /\ l[1] # <<>> /\ s.rescanFrom[1] # <<>>) =>
                             s.rescanFrom[1][1] <= l[1][1]

\* -rescan is in effect with a chain two blocks high: the rescan started
\* at genesis and the locator was not read.
C18_Witness ==
    \E p \in Procs :
        LET s == node[p] IN
        /\ GetBoolArg(s.args, "-rescan", FALSE)
        /\ StartChosen(s)
        /\ s.pindexBest = <<MaxHeight>>
        /\ s.rescanFrom[1] = <<0>>
        /\ Scanned(s) = {<<0>>}

(***************************************************************************)
(* The bind step: every -bind list, every limit on the networks, every     *)
(* set of endpoints on which BindListenPort succeeds.                      *)
(***************************************************************************)
BindArgs ==
    {ArgsWith(a @@ b @@ c) :
        a \in Opt("-bind", {<<>>, <<"10.0.0.1", "[::1]">>, <<"10.0.0.1", BadAddr>>,
                            <<BadAddr, "10.0.0.1">>}),
        b \in Opt("-onlynet", {<<>>, <<"ipv4">>, <<"ipv6">>, <<"tor">>}),
        c \in Opt("-listen", {<<>>, <<"0">>})}

InitBind == Start(BindArgs, OneCall, {{"bind"}, {"bind", "signal"}})

SpecBind == InitBind /\ [][Next]_vars

NoListenAddress(s) ==
    Reported(s, {"Failed to listen on any port. Use -listen=0 if you want this."})

Unresolved(s) == Reported(s, {"Cannot resolve -bind address"})

\* AppInit2 has returned from inside the bind step.
AbortedAtBind(s) == NoListenAddress(s) \/ Unresolved(s)

\* The bind step is behind and AppInit2 went on.
AfterBind(s) ==
    \/ s.pc \in {"extip", "blockindex", "wallet", "import", "masternode", "darksend",
                 "threads", "final"}
    \/ Called(s, "LoadBlockIndex")
    \/ Reported(s, {"Cannot resolve -externalip address",
                    "Invalid amount for -reservebalance"})

\* The bind step was run with listening enabled.
BindTried(s) == (AfterBind(s) /\ ~s.fNoListen) \/ AbortedAtBind(s)

\* C19 as stated: with listening enabled AppInit2 gets past the bind
\* step exactly when at least one bind succeeded.
C19_ProceedsIffBound ==
    \A p \in Procs :
        BindTried(node[p]) => (AfterBind(node[p]) <=> node[p].bound # {})

\* C19 amended: with listening enabled AppInit2 gets past the bind step
\* only if at least one bind succeeded, and does get past it then unless
\* a -bind address does not resolve: that aborts startup at once, whatever
\* was bound before.  With every address resolved and nothing bound
\* AppInit2 fails with the hint to use -listen=0.  Behind the bind step
\* the set of bound endpoints is empty only with listening disabled, and
\* no bind was attempted then.  A bind that fails is reported, or passed
\* over, and does not abort startup when another bind succeeds.
C19_BoundOrFatal ==
    \A p \in Procs :
        LET s == node[p] IN
        /\ BindTried(s) =>
              /\ AfterBind(s) => s.bound # {} /\ s.fBound
              /\ AfterBind(s) <=> ~AbortedAtBind(s)
              /\ AfterBind(s) <=> (s.bound # {} /\ ~Unresolved(s))
              /\ NoListenAddress(s) <=> (s.bound = {} /\ ~Unresolved(s))
              /\ AbortedAtBind(s) =>
                    /\ Finished(s)
                    /\ s.ret = <<0>>
                    /\ ~Called(s, "LoadBlockIndex")
        /\ (AfterBind(s) /\ s.bound = {}) =>
              /\ s.fNoListen
              /\ ~Called(s, "BindListenPort")
        /\ s.bound \subseteq {s.log[i][2] :
                                 i \in {j \in 1..Len(s.log) : s.log[j][1] = "BindListenPort"}}

\* One -bind address could not be bound, the other could, and AppInit2
\* has returned its success value.
C19_Witness ==
    \E p \in Procs :
        /\ Reported(node[p], {"Unable to bind"})
        /\ node[p].bound # {}
        /\ AfterBind(node[p])
        /\ node[p].ret = <<1>>

(***************************************************************************)
(* The two wildcard binds in either order.                                 *)
(***************************************************************************)
SameBinding(a, b) == a.fBound = b.fBound /\ a.bound = b.bound

\* The process as it entered the bind step.
Unbound(s) == [s EXCEPT !.fBound = FALSE, !.bound = {}]

\* The bind step was run on the wildcard addresses.
WildcardBindDone(s) == BindTried(s) /\ Count(s.args, "-bind") = 0

\* C20: binding the wildcard addresses IPv6 first, as AppInit2 does, and
\* IPv4 first give the same set of bound endpoints and the same
\* success or failure of the bind step, on whichever endpoints
\* BindListenPort succeeds and whichever families are limited: both for
\* every answer a process entering the bind step can get, and for the
\* binding a process has come out of the bind step with.
C20_BindOrderIndependent ==
    \A p \in Procs :
        LET s == node[p] IN
        /\ s.pc = "bind" =>
              \A okAddrs \in SUBSET BindEndpoints :
                  SameBinding(BindAny(s, okAddrs), BindAnyIPv4First(s, okAddrs))
        /\ WildcardBindDone(s) =>
              LET other == BindAnyIPv4First(Unbound(s), s.bound) IN
              /\ SameBinding(s, other)
              /\ NoListenAddress(s) <=> ~other.fBound

\* Neither family limited, the IPv6 bind failed first and the IPv4 bind
\* succeeded after it: AppInit2 went on with the IPv4 endpoint alone.
C20_Witness ==
    \E p \in Procs :
        /\ WildcardBindDone(node[p])
        /\ AfterBind(node[p])
        /\ Logged(node[p], <<"BindListenPort", "::">>)
        /\ Logged(node[p], <<"BindListenPort", "0.0.0.0">>)
        /\ node[p].bound = {"0.0.0.0"}

(***************************************************************************)
(* -proxy and nothing else.                                                *)
(***************************************************************************)
ProxyOnly(s) == s.raw = ArgsWith(One("-proxy", <<GoodAddr>>))

\* Parameter interaction is behind.
Interacted(s) == s.pc \notin {"start", "params"}

\* C21: started with a valid -proxy and no other option, the options as
\* resolved by parameter interaction have -listen and -discover false;
\* no bind is ever attempted and nothing is bound; behind the network
\* step the proxy is registered for IPv4, for IPv6 and as the name proxy,
\* and behind the bind step fNoListen is set and fDiscover is clear.
C21_ProxyOnlyConfig ==
    \A p \in Procs :
        LET s == node[p] IN
        ProxyOnly(s) =>
            /\ Interacted(s) =>
                  /\ ~GetBoolArg(s.args, "-listen", TRUE)
                  /\ ~GetBoolArg(s.args, "-discover", TRUE)
            /\ ~Called(s, "BindListenPort")
            /\ s.bound = {}
            /\ (s.pc = "bind" \/ AfterBind(s)) =>
                  /\ s.proxy["NET_IPV4"] = <<GoodAddr>>
                  /\ s.proxy["NET_IPV6"] = <<GoodAddr>>
                  /\ s.nameProxy = <<GoodAddr>>
            /\ AfterBind(s) => s.fNoListen /\ ~s.fDiscover

\* Such a start has returned its success value.
C21_Witness ==
    \E p \in Procs :
        /\ ProxyOnly(node[p])
        /\ node[p].ret = <<1>>
        /\ node[p].fNoListen
        /\ node[p].proxy["NET_IPV6"] = <<GoodAddr>>

(***************************************************************************)
(* The order of the interaction rules.                                     *)
(***************************************************************************)
Set(a, o) == Count(a, o) > 0

\* C22: once parameter interaction has run, (1) with -bind given and
\* -listen not given, -listen is in effect as true, also when -connect or
\* -proxy is given; (2) with neither -bind nor -listen given and -connect
\* or -proxy given, -listen is in effect as false, and so are -upnp and
\* -discover unless the operator gave them.
C22_BindRuleFirst ==
    \A p \in Procs :
        LET s == node[p] IN
        (Interacted(s) /\ ~Set(s.raw, "-listen")) =>
            /\ Set(s.raw, "-bind") =>
                  /\ s.args["-listen"] = <<"1">>
                  /\ GetBoolArg(s.args, "-listen", FALSE)
            /\ (~Set(s.raw, "-bind") /\ (Set(s.raw, "-connect") \/ Set(s.raw, "-proxy"))) =>
                  /\ ~GetBoolArg(s.args, "-listen", TRUE)
                  /\ ~Set(s.raw, "-upnp") => ~GetBoolArg(s.args, "-upnp", TRUE)
                  /\ ~Set(s.raw, "-discover") => ~GetBoolArg(s.args, "-discover", TRUE)

\* The rules have run on -bind with -connect and -proxy and no -listen:
\* listening stayed on, and -upnp was left unset.
C22_Witness ==
    \E p \in Procs :
        /\ Interacted(node[p])
        /\ Set(node[p].raw, "-bind")
        /\ Set(node[p].raw, "-connect")
        /\ Set(node[p].raw, "-proxy")
        /\ ~Set(node[p].raw, "-listen")
        /\ node[p].args["-listen"] = <<"1">>
        /\ node[p].args["-upnp"] = <<>>

(***************************************************************************)
(* Signing keys: every combination of the masternode switch, the           *)
(* masternode key and the two control keys.                                *)
(***************************************************************************)
KeyArgs ==
    {ArgsWith(a @@ b @@ c @@ d) :
        a \in Opt("-masternode", {<<>>, <<"0">>, <<"1">>}),
        b \in Opt("-masternodeprivkey", {<<>>, <<"">>, <<BadKey>>, <<GoodKey>>}),
        c \in Opt("-masternodepaymentskey", {<<>>, <<BadKey>>, <<GoodKey>>}),
        d \in Opt("-sporkkey", {<<>>, <<BadKey>>, <<GoodKey>>})}

InitKeys == Start(KeyArgs, OneCall, {{}, {"signal"}})

SpecKeys == InitKeys /\ [][Next]_vars

IsMasterNode(a) == GetBoolArg(a, "-masternode", FALSE)

KeyAbsent(a) == GetArg(a, "-masternodeprivkey", "") = ""

KeyMalformed(a) == ~KeyAbsent(a) /\ ~SetKeyOk(GetArg(a, "-masternodeprivkey", ""))

BadPaymentsKey(a) ==
    Given(a, "-masternodepaymentskey") /\ ~SetKeyOk(GetArg(a, "-masternodepaymentskey", ""))

BadSporkKey(a) == Given(a, "-sporkkey") /\ ~SetKeyOk(GetArg(a, "-sporkkey", ""))

\* The control keys are behind: the lock was taken and AppInit2 moved on.
PastKeys(s) == Called(s, "try_lock:ok") /\ s.pc # "keys"

\* The masternode step is behind: the wallet was loaded, or skipped, and
\* AppInit2 moved on.
PastMasterNode(s) ==
    \/ s.pc \in {"darksend", "threads", "final"}
    \/ Reported(s, {"Invalid -masternodeaddr address",
                    "You must specify a masternodeprivkey in the configuration.",
                    "Invalid masternodeprivkey."})
    \/ Called(s, "StartNode")
    \/ s.ret = <<1>>

KeyErrors ==
    {"You must specify a masternodeprivkey in the configuration.",
     "Invalid masternodeprivkey."}

\* C23: a masternode whose key is absent or rejected by the signer never
\* starts: AppInit2 does not return success, and once it has come to the
\* masternode step it has returned 0 with the error for the absent or for
\* the malformed key and has not started the node.  Without masternode mode
\* neither error is ever reported, whatever the key.  A payments key or
\* spork key the signer rejects is reported and ends AppInit2 with 0
\* before the storage environment is opened, in masternode mode or not.
C23_SigningKeys ==
    \A p \in Procs :
        LET s == node[p]
            a == s.raw
        IN
        /\ (IsMasterNode(a) /\ (KeyAbsent(a) \/ KeyMalformed(a))) =>
              /\ s.ret # <<1>>
              /\ s.pc \notin {"darksend", "threads", "final"}
              /\ ~Called(s, "StartNode")
              /\ PastMasterNode(s) =>
                    /\ s.ret = <<0>>
                    /\ KeyAbsent(a) =>
                          Reported(s, {"You must specify a masternodeprivkey in the configuration."})
                    /\ KeyMalformed(a) => Reported(s, {"Invalid masternodeprivkey."})
        /\ Reported(s, KeyErrors) => IsMasterNode(a) /\ (KeyAbsent(a) \/ KeyMalformed(a))
        /\ (BadPaymentsKey(a) \/ BadSporkKey(a)) =>
              /\ s.ret # <<1>>
              /\ ~Called(s, "bitdb.Open")
              /\ PastKeys(s) =>
                    /\ s.ret = <<0>>
                    /\ Reported(s, {"Unable to sign masternode payment winner, wrong key?",
                                    "Unable to sign spork message, wrong key?"})
        /\ Reported(s, {"Unable to sign masternode payment winner, wrong key?"})
              => BadPaymentsKey(a)
        /\ Reported(s, {"Unable to sign spork message, wrong key?"}) => BadSporkKey(a)

\* A masternode with a malformed key was refused after its wallet was
\* loaded.
C23_Witness ==
    \E p \in Procs :
        /\ IsMasterNode(node[p].raw)
        /\ KeyMalformed(node[p].raw)
        /\ Called(node[p], "LoadWallet")
        /\ Reported(node[p], {"Invalid masternodeprivkey."})
        /\ node[p].ret = <<0>>

(***************************************************************************)
(* The wallet's tasks.                                                     *)
(***************************************************************************)
\* The task-launch step is behind.
PastThreads(s) == Called(s, "StartRPCThreads")

StakingEnabled(s) == GetBoolArg(s.args, "-staking", TRUE)

\* C24: the staking task is only ever created with a wallet and staking
\* enabled, the periodic-flush task only with a wallet; once the tasks
\* are launched the staking task exists exactly when there is a wallet and
\* staking is enabled and the flush task exactly when there is a wallet;
\* neither absence is an error: launching the tasks reports nothing, and
\* AppInit2 then returns success unless shutdown was requested.
C24_WalletTasks ==
    \A p \in Procs :
        LET s == node[p] IN
        /\ "ThreadStakeMiner" \in s.threads =>
              ~s.fDisableWallet /\ StakingEnabled(s) /\ Called(s, "LoadWallet")
        /\ "ThreadFlushWalletDB" \in s.threads =>
              ~s.fDisableWallet /\ Called(s, "LoadWallet")
        /\ PastThreads(s) =>
              /\ s.nBody = 0 => s.pwalletMain = ~s.fDisableWallet
              /\ "ThreadStakeMiner" \in s.threads <=> (~s.fDisableWallet /\ StakingEnabled(s))
              /\ "ThreadFlushWalletDB" \in s.threads <=> ~s.fDisableWallet
              /\ \A i \in 1..Len(s.errs) : s.errs[i][1] = "Unable to bind"
              /\ Finished(s) => s.ret = <<1>> \/ (s.ret = <<0>> /\ s.fRequestShutdown)

\* With the wallet disabled AppInit2 has returned success and created
\* neither task.
C24_Witness ==
    \E p \in Procs :
        /\ node[p].fDisableWallet
        /\ StakingEnabled(node[p])
        /\ node[p].ret = <<1>>
        /\ "ThreadCheckDarkSendPool" \in node[p].threads
        /\ node[p].threads \cap {"ThreadStakeMiner", "ThreadFlushWalletDB"} = {}

(***************************************************************************)
(* The stake-seen sets in use.  Block loading and block processing insert  *)
(* into both sets and look keys up in them once AppInit2 is under way,     *)
(* and erase from the orphan set.  An insert or erase the assertions of    *)
(* the table forbid aborts a build with assertions and goes ahead in a     *)
(* build without.                                                          *)
(***************************************************************************)
SeenSets == {"setStakeSeen", "setStakeSeenOrphan"}

\* Three kernels: two outputs of one transaction at one time, which
\* PairHash does not tell apart, and one that shares the bucket of the
\* deleted key.
Kernels ==
    {<<<<Uint256(1), <<0, 0>>>>, <<0, 2>>>>,
     <<<<Uint256(1), <<0, 1>>>>, <<0, 2>>>>,
     <<<<Uint256(0), <<0, 0>>>>, UIntMaxLess1>>}

Sentinels == {EmptyKey, DeletedKey}

StakeKeys == Kernels \cup Sentinels

\* AppInit2 is past its first statement and the process is alive.
UnderWay(s) == s.pc \notin {"start", "exited"}

StepInsert(s, name, k) ==
    IF ~MayInsert(s[name], k) /\ s.fAssert
    THEN Abort(s)
    ELSE [s EXCEPT ![name] = Insert(@, k)]

StepErase(s, name, k) ==
    IF ~MayErase(s[name], k) /\ s.fAssert
    THEN Abort(s)
    ELSE [s EXCEPT ![name] = Erase(@, k)]

StepLookup(s, name, k) == [s EXCEPT !.found = <<name, k, Contains(s[name], k)>>]

DoInsert(p) ==
    /\ UnderWay(node[p])
    /\ \E name \in SeenSets, k \in StakeKeys :
          /\ node[p][name].numElements < MaxLoad
          /\ Step(p, StepInsert(node[p], name, k))

DoErase(p) ==
    /\ UnderWay(node[p])
    /\ \E k \in StakeKeys : Step(p, StepErase(node[p], "setStakeSeenOrphan", k))

DoLookup(p) ==
    /\ UnderWay(node[p])
    /\ \E name \in SeenSets, k \in StakeKeys : Step(p, StepLookup(node[p], name, k))

InitCollections ==
    /\ lockHolders = {}
    /\ lockFile = FALSE
    /\ \E f \in BOOLEAN :
          node = [p \in Procs |->
                    IF p = 1
                    THEN [InitNode(NoArgs, NoCalls, {}) EXCEPT !.fAssert = f]
                    ELSE NotRunning]

NextCollections == \E p \in Procs : DoStart(p) \/ DoInsert(p) \/ DoErase(p) \/ DoLookup(p)

SpecCollections == InitCollections /\ [][NextCollections]_vars

\* A kernel is found in S only if it was inserted and not erased since.
NoGhostKernel(S) == \A k \in Kernels : Contains(S, k) => k \in S.inserted

\* Neither sentinel value is a member of S.
NoSentinelMember(S) == \A k \in Sentinels : ~Contains(S, k)

\* C25: in both stake-seen sets, whatever was inserted and looked up, a
\* kernel is found only if it is in the set (never because a slot holds
\* the empty or the deleted marker), and neither (null outpoint, UINT_MAX)
\* nor (null outpoint, UINT_MAX - 1) is ever a member.
C25_SentinelsNeverMembers ==
    \A p \in Procs : \A name \in SeenSets :
        LET S == node[p][name] IN
        S.fEmpty => NoGhostKernel(S) /\ NoSentinelMember(S)

\* C26: once InitializeCollections has run, each stake-seen set has an
\* empty key and a deleted key configured, and they differ; and a set
\* holds nothing and has been asked nothing before then.
C26_BothSentinelsConfigured ==
    \A p \in Procs :
        LET s == node[p] IN
        /\ Called(s, "InitializeCollections") =>
              \A name \in SeenSets :
                  /\ s[name].fEmpty
                  /\ s[name].fDeleted
                  /\ s[name].emptyKey # s[name].delKey
        /\ ~Called(s, "InitializeCollections") =>
              /\ \A name \in SeenSets : s[name] = NewSet
              /\ s.found = <<>>

(***************************************************************************)
(* The composite-key hashes applied: to a pair of component digests, to a  *)
(* std::tuple<uint160, uint256> and to a std::pair<COutPoint, unsigned     *)
(* int>, each with the digests combined in the order of the source and in  *)
(* the other order.                                                        *)
(***************************************************************************)
\* The highest of the small digests.
MaxDigest == 31

SmallDigests == {Word(0, n) : n \in 0..MaxDigest}

\* 0xa650bed65a8ef0b1 and 0x06efff9b9f45f9a8.
DigestA == <<61617, 23182, 48854, 42576>>
DigestB == <<63912, 40773, 65435, 1775>>

\* 0xbf40bf415a8ef0b1, and 0x9f45f9a8, which is an unsigned int.
DigestC == <<61617, 23182, 48961, 48960>>
DigestD == <<63912, 40773, 0, 0>>

Digests == SmallDigests \cup {DigestA, DigestB, DigestC, DigestD}

TupleKeys == {<<Bytes(20, x), Bytes(32, y)>> : x \in 0..2, y \in 0..2}

PairKeys ==
    {<<<<Bytes(32, x), n>>, time>> :
        x \in 0..2, n \in {<<0, 0>>, UIntMax}, time \in {<<0, 0>>, <<0, 1>>, UIntMax}}

HashInputs ==
    {<<"digests", <<a, b>>>> : a \in Digests, b \in Digests}
    \cup {<<"tuple", v>> : v \in TupleKeys}
    \cup {<<"pair", v>> : v \in PairKeys}

InitHash ==
    /\ lockHolders = {}
    /\ lockFile = FALSE
    /\ \E in \in HashInputs :
          node = [p \in Procs |->
                    IF p = 1
                    THEN [InitNode(NoArgs, NoCalls, {}) EXCEPT !.hashIn = in]
                    ELSE NotRunning]

\* The digests a and b, a combined with b and b combined with a.
Hashed(a, b, ab) == <<[a |-> a, b |-> b, ab |-> ab, ba |-> HashCombine(b, a)]>>

ToHash(s, kind) == s.hashIn # <<>> /\ s.hashIn[1] = kind /\ s.hashOut = <<>>

StepCombine(s) ==
    LET v == s.hashIn[2] IN
    [s EXCEPT !.hashOut = Hashed(v[1], v[2], HashCombine(v[1], v[2]))]

StepTupleHash(s) ==
    LET v == s.hashIn[2] IN
    [s EXCEPT !.hashOut = Hashed(HashRange(v[1]), HashRange(v[2]), TupleHash(v))]

StepPairHash(s) ==
    LET v == s.hashIn[2] IN
    [s EXCEPT !.hashOut = Hashed(HashRange(v[1][1]), Word(v[2][1], v[2][2]), PairHash(v))]

DoCombine(p) == ToHash(node[p], "digests") /\ Step(p, StepCombine(node[p]))

DoTupleHash(p) == ToHash(node[p], "tuple") /\ Step(p, StepTupleHash(node[p]))

DoPairHash(p) == ToHash(node[p], "pair") /\ Step(p, StepPairHash(node[p]))

NextHash == \E p \in Procs : DoCombine(p) \/ DoTupleHash(p) \/ DoPairHash(p)

SpecHash == InitHash /\ [][NextHash]_vars

Ordinary(s) ==
    /\ s.hashOut # <<>>
    /\ s.hashOut[1].a # s.hashOut[1].b
    /\ \/ s.hashIn[1] \in {"tuple", "pair"}
       \/ {s.hashOut[1].a, s.hashOut[1].b} \subseteq SmallDigests

\* The pairs of word-sized digests that combine to the same value either way.
Symmetric(s) ==
    /\ s.hashOut # <<>>
    /\ <<s.hashOut[1].a, s.hashOut[1].b>> \in
          {<<DigestA, DigestB>>, <<DigestB, DigestA>>,
           <<DigestC, DigestD>>, <<DigestD, DigestC>>}

Reenter(p) ==
    /\ At(p, "returned")
    /\ NCalls(node[p], "InitializeCollections") < MaxEntries
    /\ Step(p, [Log(node[p], "AppInit2") EXCEPT !.pc = "start", !.ret = <<>>])

ReentryArgs ==
    {ArgsWith(a) : a \in Opt("-disablewallet", {<<>>, <<"1">>})}

InitReentry ==
    /\ lockHolders = {}
    /\ lockFile = FALSE
    /\ \E a \in ReentryArgs, v \in Varying(MaxVary), f \in BOOLEAN :
          node = [p \in Procs |->
                    IF p = 1
                    THEN [InitNode(a, NoCalls, v) EXCEPT !.fAssert = f]
                    ELSE NotRunning]

NextReentry == \E p \in Procs : AppInit2(p) \/ Reenter(p)

SpecReentry == InitReentry /\ [][NextReentry]_vars

\* The steps of the startup sequence the log shows.
StartupSteps ==
    {"InitializeCollections", "fopen(.lock)", "try_lock:ok", "try_lock:failed",
     "bitdb.Open", "create_thread", "StartNode"}

\* C28 as stated: once AppInit2 has been called a second time in a process,
\* no step of the startup sequence is run any more in that process: no
\* sentinel configuration, no lock acquisition, no store open, no task launch.
C28_SecondCallBlocked ==
    \A p \in Procs :
        LET s == node[p] IN
        \A i \in 1..Len(s.log) :
            s.log[i][1] = "AppInit2" =>
                \A j \in (i + 1)..Len(s.log) : s.log[j][1] \notin StartupSteps

(***************************************************************************)
(* The write-backs of the wallet's best-chain pointer: startups with and   *)
(* without a wallet, with and without -rescan, the wallet file and the     *)
(* block index answering freely, followed by Shutdown() called up to       *)
(* MaxCalls times.                                                         *)
(***************************************************************************)
WriteBackArgs ==
    {ArgsWith(d @@ r) :
        d \in Opt("-disablewallet", {<<>>, <<"1">>}),
        r \in Opt("-rescan", {<<>>, <<"1">>})}

WriteBackCalls == [t \in Threads |-> IF t = 1 THEN MaxCalls ELSE 0]

InitWriteBack == Start(WriteBackArgs, WriteBackCalls, {{"wallet", "rescan", "signal"}})

SpecWriteBack == InitWriteBack /\ [][Next]_vars

\* The places of the calls of e in the log.
Places(s, e) == {i \in 1..Len(s.log) : s.log[i][1] = e}

\* pwalletMain is not NULL when the call at place i of the log is made.
WalletAt(s, i) ==
    /\ \E j \in Places(s, "LoadWallet") : j < i
    /\ \A j \in Places(s, "delete pwalletMain") : j > i

\* The call at place i + 1 of the log is the write-back.
WrittenBackAfter(s, i) == i + 1 \in Places(s, "SetBestChain")

\* The wallet step of AppInit2 is behind without a first run and a rescan.
PlainWalletStart(s) ==
    /\ s.pc \notin {"start", "params", "flags", "lock", "trylock", "keys", "dbenv",
                    "verify", "network", "bind", "extip", "blockindex", "wallet"}
    /\ ~s.fFirstRun
    /\ Places(s, "ScanForWalletTransactions") = {}

\* C29: SetBestChain is called with the best block, and only on a first run
\* right after the wallet was loaded, right after a rescan, and right after
\* StopNode in an execution of the teardown body with a wallet; each of the
\* three is followed by exactly that one call, and a startup without first
\* run and rescan calls it nowhere before the teardown.
C29_WriteBackPoints ==
    \A p \in Procs :
        LET s == node[p] IN
        /\ \A i \in Places(s, "SetBestChain") :
              /\ s.log[i][2] = s.pindexBest
              /\ i > 1
              /\ WalletAt(s, i)
              /\ \/ s.log[i - 1][1] = "LoadWallet" /\ s.fFirstRun
                 \/ s.log[i - 1][1] = "ScanForWalletTransactions"
                 \/ s.log[i - 1][1] = "StopNode"
        /\ \A i \in Places(s, "LoadWallet") :
              WrittenBackAfter(s, i) <=> (s.fFirstRun /\ s.walletLoad # "DB_NEED_REWRITE")
        /\ \A i \in Places(s, "ScanForWalletTransactions") : WrittenBackAfter(s, i)
        /\ \A i \in Places(s, "StopNode") : WrittenBackAfter(s, i) <=> WalletAt(s, i)
        /\ (PlainWalletStart(s) /\ Places(s, "StopNode") = {}) =>
              Places(s, "SetBestChain") = {}

\* A first run that rescanned and was torn down: three write-backs.
C29_Witness ==
    \E p \in Procs :
        LET s == node[p] IN
        /\ s.fFirstRun
        /\ Places(s, "ScanForWalletTransactions") # {}
        /\ Called(s, "Shutdown : done")
        /\ Cardinality(Places(s, "SetBestChain")) = 3

(***************************************************************************)
(* The Tor proxy: startups with -proxy and -tor absent, valid, invalid,    *)
(* and -tor 0, with and without -onlynet.                                  *)
(***************************************************************************)
TorArgs ==
    {ArgsWith(x @@ t @@ o) :
        x \in Opt("-proxy", {<<>>, <<"10.0.0.1">>, <<GoodAddr>>, <<BadAddr>>}),
        t \in Opt("-tor", {<<>>, <<"0">>, <<"1.2.3.4">>, <<GoodAddr>>, <<BadAddr>>}),
        o \in Opt("-onlynet", {<<>>, <<"ipv4">>})}

InitTor == Start(TorArgs, OneCall, {{}, {"signal"}})

SpecTor == InitTor /\ [][Next]_vars

\* -tor is not the value 0 and -proxy or -tor is given.
TorWanted(a) ==
    /\ a["-tor"] # <<"0">>
    /\ (a["-proxy"] # <<>> \/ a["-tor"] # <<>>)

\* The address the Tor proxy is to have.
TorAddress(a) == IF a["-tor"] # <<>> THEN a["-tor"] ELSE a["-proxy"]

\* The proxies are set up and AppInit2 went on.
ProxiesDone(s) ==
    /\ Called(s, "RegisterNodeSignals")
    /\ s.pc # "network"
    /\ ~Reported(s, {"Unknown network specified in -onlynet", "Invalid -proxy address",
                     "Invalid -tor address"})

\* C30: once the proxies are set up, the Tor proxy is registered and Tor
\* marked reachable exactly if -tor is not 0 and -proxy or -tor is given,
\* with the -tor address if -tor is given and the -proxy address otherwise;
\* -tor 0 leaves Tor without proxy while the general proxy is registered;
\* before that, and when AppInit2 fails on an invalid address, none is.
C30_TorProxy ==
    \A p \in Procs :
        LET s == node[p]
            a == s.raw
        IN
        /\ ProxiesDone(s) =>
              /\ s.proxy["NET_TOR"] # <<>> <=> TorWanted(a)
              /\ s.reachableTor <=> TorWanted(a)
              /\ TorWanted(a) => s.proxy["NET_TOR"] = TorAddress(a)
              /\ (a["-tor"] = <<"0">> /\ a["-proxy"] # <<>>) =>
                    /\ s.proxy["NET_TOR"] = <<>>
                    /\ s.nameProxy = a["-proxy"]
        /\ ~ProxiesDone(s) => s.proxy["NET_TOR"] = <<>> /\ ~s.reachableTor
        /\ Reported(s, {"Invalid -tor address"}) =>
              TorWanted(a) /\ ~IsValidAddr(TorAddress(a)[1])

C30_Witness ==
    \E p \in Procs :
        /\ node[p].raw["-proxy"] = <<"10.0.0.1">>
        /\ node[p].raw["-tor"] = <<GoodAddr>>
        /\ ProxiesDone(node[p])
        /\ node[p].proxy["NET_TOR"] = <<GoodAddr>>
        /\ node[p].nameProxy = <<"10.0.0.1">>
        /\ node[p].reachableTor

(***************************************************************************)
(* The shutdown request: the signal handler, StartShutdown and the flag.   *)
(***************************************************************************)
\* The step of p in which CheckDiskSpace fails and StartShutdown is called.
DiskFailure(p) ==
    /\ node[p].pc = "import"
    /\ node'[p].log # node[p].log
    /\ Last(node'[p].log) = <<"CheckDiskSpace", "failed">>

\* The process is as it was but for the flag, which is set.
OnlyFlagSet(before, after) == after = [before EXCEPT !.fRequestShutdown = TRUE]

\* C31: a step of the signal handler sets fRequestShutdown and changes
\* nothing else, of the process or of the lock; the step that calls
\* StartShutdown sets the flag and beside it changes only what AppInit2
\* does in that step (the import task, the log, the return), logging no
\* teardown call; and no step of any process resets the flag.
C31_OnlyTheFlag ==
    [][\A p \in Procs :
          /\ Signal(p) =>
                /\ OnlyFlagSet(node[p], node'[p])
                /\ lockHolders' = lockHolders /\ lockFile' = lockFile
                /\ \A q \in Procs \ {p} : node'[q] = node[q]
          /\ DiskFailure(p) =>
                /\ OnlyFlagSet(node[p],
                               [node'[p] EXCEPT !.pc = node[p].pc, !.ret = node[p].ret,
                                                !.log = node[p].log,
                                                !.threads = node[p].threads])
                /\ node'[p].log = node[p].log \o
                       << <<"create_thread", "ThreadImport">>, <<"CAddrDB::Read">>,
                          <<"SecureMsgStart">>, <<"CheckDiskSpace", "failed">> >>
          /\ node[p].fRequestShutdown => node'[p].fRequestShutdown]_vars

\* A signal has come in the middle of startup: the flag is set, AppInit2
\* is where it was and nothing was torn down.
C31_Witness ==
    \E p \in Procs :
        /\ node[p].fRequestShutdown
        /\ "signal" \in node[p].vary
        /\ node[p].pc = "wallet"
        /\ node[p].dbOpen
        /\ ~Called(node[p], "StopNode")
        /\ node[p].sd = [t \in Threads |-> "idle"]

(***************************************************************************)
(* Insufficient disk space, lines 973-977.                                 *)
(***************************************************************************)
DiskFailed(s) ==
    \E i \in 1..Len(s.log) : s.log[i] = <<"CheckDiskSpace", "failed">>

\* AppInit2 has returned failure with the steps after the disk check not run.
StoppedAtDisk(s) ==
    /\ DiskFailed(s)
    /\ s.ret = <<0>>
    /\ ~Called(s, "StartNode")
    /\ s.threads \subseteq {"ThreadImport"}

\* C32 as stated: a failed disk check sets the shutdown request and the
\* startup sequence is not cut off at that point.
C32_DiskSpaceNoAbort ==
    \A p \in Procs :
        DiskFailed(node[p]) => node[p].fRequestShutdown /\ ~StoppedAtDisk(node[p])

\* C32, amended: a failed disk check sets the shutdown request and ends
\* AppInit2 at once with the failure value and without an error message
\* (the only messages there can be are those of binds that failed before);
\* no later step of startup runs, the import task is the only task there
\* is, and teardown calls are made only by Shutdown() called afterwards.
C32_DiskSpaceStops ==
    \A p \in Procs :
        LET s == node[p] IN
        DiskFailed(s) =>
            /\ s.fRequestShutdown
            /\ s.pc \in {"returned", "exited"}
            /\ StoppedAtDisk(s)
            /\ \A i \in 1..Len(s.errs) : s.errs[i][1] = "Unable to bind"
            /\ s.fMasterNode = FALSE
            /\ Called(s, "StopNode") => s.callsLeft # OneCall

C32_Witness ==
    \E p \in Procs :
        /\ DiskFailed(node[p])
        /\ node[p].pwalletMain
        /\ node[p].pc = "returned"
        /\ node[p].sd = [t \in Threads |-> "idle"]
        /\ node[p].callsLeft = OneCall
        /\ node[p].threads = {"ThreadImport"}

(***************************************************************************)
(* The services and the fatal checks before them.                          *)
(***************************************************************************)
Services == {"ThreadCheckDarkSendPool", "ThreadStakeMiner", "ThreadFlushWalletDB"}

ServiceStarted(s) ==
    \/ s.threads \cap Services # {}
    \/ \E e \in {"StartNode", "InitRPCMining", "StartRPCThreads"} : Called(s, e)

\* The fatal checks of lines 949-1060 have passed.
ChecksPassed(s) ==
    /\ \A i \in 1..Len(s.errs) : s.errs[i][1] = "Unable to bind"
    /\ s.strErrors = <<>>
    /\ \E i \in 1..Len(s.log) : s.log[i] = <<"CheckDiskSpace", "ok">>
    /\ ~DiskFailed(s)
    /\ s.fMasterNode =>
          /\ ~s.fLiteMode
          /\ SetKeyOk(GetArg(s.raw, "-masternodeprivkey", ""))
          /\ GetArg(s.raw, "-masternodeaddr", "") \in {"", GoodAddr}
    /\ ~s.fDisableWallet => s.walletLoad \in {"DB_LOAD_OK", "DB_NONCRITICAL_ERROR"}

\* C33: the mixing-pool task, StartNode, the RPC threads, the stake miner
\* and the wallet flush task exist only when every fatal check has passed,
\* the import task being there before them; and when AppInit2 has returned
\* on a fatal error or on a failed disk check, no task but the import task
\* was created and none of the services was started.
C33_ServicesAfterChecks ==
    \A p \in Procs :
        LET s == node[p] IN
        /\ ServiceStarted(s) => ChecksPassed(s) /\ "ThreadImport" \in s.threads
        /\ (Fatal(s) \/ DiskFailed(s)) =>
              /\ s.threads \subseteq {"ThreadImport"}
              /\ ~ServiceStarted(s)

\* The wallet could not be loaded: the error is reported with the import
\* task created and nothing else.
C33_Witness ==
    \E p \in Procs :
        /\ Fatal(node[p])
        /\ node[p].walletLoad = "DB_CORRUPT"
        /\ node[p].threads = {"ThreadImport"}
        /\ ~ServiceStarted(node[p])
        /\ node[p].ret = <<0>>

(***************************************************************************)
(* -onlynet: startups with allow-lists of one and two networks, with and   *)
(* without -proxy, -listen and -bind, the binds succeeding or not.         *)
(***************************************************************************)
OnlyNetArgs ==
    {ArgsWith(o @@ x @@ l @@ b) :
        o \in Opt("-onlynet", {<<>>, <<"ipv4">>, <<"ipv6">>, <<"tor">>,
                               <<"ipv4", "ipv6">>, <<"tor", "ipv6">>}),
        x \in Opt("-proxy", {<<>>, <<GoodAddr>>}),
        l \in Opt("-listen", {<<>>, <<"0">>, <<"1">>}),
        b \in Opt("-bind", {<<>>, <<"10.0.0.1", "[::1]">>})}

InitOnlyNet == Start(OnlyNetArgs, OneCall, {{"bind"}, {"signal"}})

SpecOnlyNet == InitOnlyNet /\ [][Next]_vars

\* The networks the operator allowed.
Allowed(a) ==
    {n \in ProxyNets :
        \E i \in 1..Len(a["-onlynet"]) :
            <<a["-onlynet"][i], n>> \in
                {<<"ipv4", "NET_IPV4">>, <<"ipv6", "NET_IPV6">>, <<"tor", "NET_TOR">>}}

Excluded(a) == IF a["-onlynet"] = <<>> THEN {} ELSE ProxyNets \ Allowed(a)

\* The addresses BindListenPort was called on.
BindsTried(s) == {s.log[i][2] : i \in {j \in 1..Len(s.log) : s.log[j][1] = "BindListenPort"}}

\* Both address families are excluded, listening is on and no -bind is given.
NowhereToListen(s) ==
    /\ {"NET_IPV4", "NET_IPV6"} \subseteq Excluded(s.raw)
    /\ GetBoolArg(s.args, "-listen", TRUE)
    /\ s.raw["-bind"] = <<>>

\* C34: from the end of the network step on, the networks that -onlynet
\* leaves out are the limited ones; the general proxy is registered for
\* none of them and for every allowed family; BindListenPort is called on
\* no address of an excluded family; and with both families excluded,
\* listening on and no -bind, the bind step calls BindListenPort not at all
\* and AppInit2 returns with the error that it listens on no port.
C34_OnlyNetLimits ==
    \A p \in Procs :
        LET s == node[p]
            a == s.raw
        IN
        /\ ProxiesDone(s) =>
              /\ s.limited \cap ProxyNets = Excluded(a)
              /\ \A n \in {"NET_IPV4", "NET_IPV6"} :
                    s.proxy[n] # <<>> <=> (a["-proxy"] # <<>> /\ n \notin Excluded(a))
              /\ \A addr \in BindsTried(s) : NetOf(addr) \notin Excluded(a)
        /\ ~ProxiesDone(s) => BindsTried(s) = {}
        /\ (ProxiesDone(s) /\ s.pc # "bind" /\ NowhereToListen(s)) =>
              /\ BindsTried(s) = {}
              /\ s.ret = <<0>>
              /\ Reported(s, {"Failed to listen on any port. Use -listen=0 if you want this."})
              /\ ~Called(s, "LoadBlockIndex")

\* -onlynet=tor alone: nothing was bound and startup has failed.
C34_Witness ==
    \E p \in Procs :
        /\ node[p].raw["-onlynet"] = <<"tor">>
        /\ node[p].raw["-proxy"] = <<>>
        /\ NowhereToListen(node[p])
        /\ node[p].pc = "returned"
        /\ node[p].limited \cap ProxyNets = {"NET_IPV4", "NET_IPV6"}
        /\ BindsTried(node[p]) = {}
        /\ Reported(node[p], {"Failed to listen on any port. Use -listen=0 if you want this."})

(***************************************************************************)
(* The pair hash applied to two stake keys.                                *)
(***************************************************************************)
InitPairHash ==
    /\ lockHolders = {}
    /\ lockFile = FALSE
    /\ \E k1 \in PairKeys, k2 \in PairKeys :
          node = [p \in Procs |->
                    IF p = 1
                    THEN [InitNode(NoArgs, NoCalls, {}) EXCEPT
                             !.hashIn = <<"pairs", <<k1, k2>>>>]
                    ELSE NotRunning]

StepPairHashes(s) ==
    LET v == s.hashIn[2] IN
    [s EXCEPT !.hashOut = <<[first |-> PairHash(v[1]), second |-> PairHash(v[2])]>>]

DoPairHashes(p) == ToHash(node[p], "pairs") /\ Step(p, StepPairHashes(node[p]))

NextPairHash == \E p \in Procs : DoPairHashes(p)

SpecPairHash == InitPairHash /\ [][NextPairHash]_vars

\* The transaction hash of the outpoint of a stake key, and its timestamp.
TxHashOf(k) == k[1][1]

TimeOf(k) == k[2]

\* C35: two stake keys with the same transaction hash and the same
\* timestamp have the same hash, so equal keys have and so have keys that
\* differ in the output index of the outpoint alone; the hash is the
\* digest of the bytes of the transaction hash combined with the timestamp.
C35_IndexIgnored ==
    \A p \in Procs :
        LET s == node[p] IN
        (s.hashIn # <<>> /\ s.hashIn[1] = "pairs" /\ s.hashOut # <<>>) =>
            LET k1 == s.hashIn[2][1]
                k2 == s.hashIn[2][2]
                h  == s.hashOut[1]
            IN
            /\ (TxHashOf(k1) = TxHashOf(k2) /\ TimeOf(k1) = TimeOf(k2)) =>
                  h.first = h.second
            /\ k1 = k2 => h.first = h.second
            /\ h.first = HashCombine(HashRange(TxHashOf(k1)),
                                     Word(TimeOf(k1)[1], TimeOf(k1)[2]))

\* Two keys of one transaction and one time, for outputs 0 and UINT_MAX.
C35_Witness ==
    \E p \in Procs :
        /\ node[p].hashIn = <<"pairs", << <<<<Bytes(32, 1), <<0, 0>>>>, <<0, 1>>>>,
                                          <<<<Bytes(32, 1), UIntMax>>, <<0, 1>>>> >> >>
        /\ node[p].hashOut # <<>>
        /\ node[p].hashOut[1].first = node[p].hashOut[1].second

====
